---- MODULE Spec2Model ----
(***************************************************************************)
(* Model of hydrus' file import pipeline:                                  *)
(*   hydrus/client/importing/ClientImportFiles.py                          *)
(*       FileImportStatus, CheckFileImportStatus, FileImportJob            *)
(*   hydrus/client/importing/options/FileImportOptions.py                  *)
(*       FileImportOptions                                                 *)
(* The database ('hash_status', 'import_file', 'content_updates'), the     *)
(* client files manager (GetFilePath, AddFile) and the file handling       *)
(* helpers are collaborators whose code is outside these two files; they   *)
(* are modelled from their documented contract.                            *)
(***************************************************************************)
EXTENDS Integers, Sequences, FiniteSets, TLC

(***************************************************************************)
(* Bounds of the model.                                                    *)
(***************************************************************************)
\* how many FileImportJob objects are constructed in one behaviour
MaxRuns == 2
\* how many times the environment removes or deletes a stored file
MaxDrift == 1
\* the largest file size, and the largest size limit, of the calls made on their own
MaxSize == 2
\* the largest width or height, and the largest resolution limit, of those calls
MaxDim == 2

(***************************************************************************)
(* Values.                                                                 *)
(***************************************************************************)
\* Python's None for a hash or a mime
None == "None"
\* Python's None for an optional number or an optional pair
NoInt == << >>
Some(v) == << v >>
\* the empty note ''
NoNote == << >>

\* CC.STATUS_*
STATUS_UNKNOWN == "STATUS_UNKNOWN"
STATUS_SUCCESSFUL_AND_NEW == "STATUS_SUCCESSFUL_AND_NEW"
STATUS_SUCCESSFUL_BUT_REDUNDANT == "STATUS_SUCCESSFUL_BUT_REDUNDANT"
STATUS_DELETED == "STATUS_DELETED"
STATUS_VETOED == "STATUS_VETOED"
StatusCodes == { STATUS_UNKNOWN, STATUS_SUCCESSFUL_AND_NEW, STATUS_SUCCESSFUL_BUT_REDUNDANT,
                 STATUS_DELETED, STATUS_VETOED }

\* HC.IMAGE_PNG, HC.IMAGE_BMP, HC.IMAGE_GIF, HC.APPLICATION_PDF
IMAGE_PNG == "image/png"
IMAGE_BMP == "image/bmp"
IMAGE_GIF == "image/gif"
APPLICATION_PDF == "application/pdf"
Mimes == { IMAGE_PNG, IMAGE_GIF, APPLICATION_PDF }
\* HC.DECOMPRESSION_BOMB_IMAGES, HC.MIMES_WITH_THUMBNAILS, HC.MIMES_WE_CAN_PHASH
DECOMPRESSION_BOMB_IMAGES == { IMAGE_PNG }
MIMES_WITH_THUMBNAILS == { IMAGE_PNG, IMAGE_GIF }
MIMES_WE_CAN_PHASH == { IMAGE_PNG }

(***************************************************************************)
(* The files a job can be given.  A file is named by its bytes; what the   *)
(* file handling helpers compute from the bytes is a function of them.     *)
(***************************************************************************)
\* the same picture as a BMP and as the PNG that ConvertToPNGIfBMP makes of it,
\* a png that is a decompression bomb and does not render, a pdf
Files == { "bmpA", "pngA", "pngC", "pdfD" }

\* HydrusImageHandling.ConvertToPNGIfBMP: rewrites a BMP at the path as a PNG
ConvertToPNGIfBMP(bytes) == IF bytes = "bmpA" THEN "pngA" ELSE bytes

\* HydrusFileHandling.GetHashFromPath: the sha256 of the bytes at the path
GetHashFromPath(bytes) ==
    CASE bytes = "bmpA" -> "h_bmpA"
      [] bytes = "pngA" -> "h_pngA"
      [] bytes = "pngC" -> "h_pngC"
      [] bytes = "pdfD" -> "h_pdfD"
Hashes == { GetHashFromPath(b) : b \in Files }

\* HydrusFileHandling.GetMime: the sniffed mime
GetMime(bytes) ==
    CASE bytes = "bmpA" -> IMAGE_BMP
      [] bytes \in { "pngA", "pngC" } -> IMAGE_PNG
      [] bytes = "pdfD" -> APPLICATION_PDF

\* HydrusFileHandling.GetFileInfo: ( size, mime, width, height ); duration,
\* num_frames, has_audio and num_words play no part in the pipeline's decisions
GetFileInfo(bytes, mime) ==
    CASE bytes \in { "bmpA", "pngA" } -> [ size |-> 2, mime |-> mime, width |-> Some(2), height |-> Some(2) ]
      [] bytes = "pngC" -> [ size |-> 3, mime |-> mime, width |-> Some(3), height |-> Some(3) ]
      [] bytes = "pdfD" -> [ size |-> 3, mime |-> mime, width |-> NoInt, height |-> NoInt ]

\* HydrusImageHandling.IsDecompressionBomb
IsDecompressionBomb(bytes) == bytes = "pngC"

\* HydrusFileHandling.GenerateThumbnailBytes raises on a file it cannot render
ThumbnailRenders(bytes) == bytes # "pngC"

(***************************************************************************)
(* FileImportStatus.                                                       *)
(***************************************************************************)
\* FileImportStatus.__init__( status, hash, mime = None, note = '' )
FileImportStatus(status, hash, mime, note) ==
    [ status |-> status, hash |-> hash, mime |-> mime, note |-> note ]

\* FileImportStatus.STATICGetUnknownStatus
STATICGetUnknownStatus == FileImportStatus(STATUS_UNKNOWN, None, None, NoNote)

\* FileImportStatus.AlreadyInDB
AlreadyInDB(fis) == fis.status = STATUS_SUCCESSFUL_BUT_REDUNDANT

\* a slip in Duplicate: the note is not passed on
DuplicateDropsNote(fis) == FileImportStatus(fis.status, fis.hash, fis.mime, NoNote)

\* FileImportStatus.Duplicate
Duplicate(fis) == FileImportStatus(fis.status, fis.hash, fis.mime, fis.note)

\* FileImportOptions.ExcludesDeleted, AllowsDecompressionBombs, AutomaticallyArchives
ExcludesDeleted(fio) == fio.exclude_deleted
AllowsDecompressionBombs(fio) == fio.allow_decompression_bombs
AutomaticallyArchives(fio) == fio.automatic_archive

\* a slip in ShouldImport: a file the database already holds is imported again
ShouldImportAlsoRedundant(fis, fio) ==
    \/ fis.status \in { STATUS_UNKNOWN, STATUS_SUCCESSFUL_BUT_REDUNDANT }
    \/ fis.status = STATUS_DELETED /\ ~ ExcludesDeleted(fio)

\* a slip in ShouldImport: the exclude-deleted option is read the wrong way round
ShouldImportInverted(fis, fio) ==
    IF fis.status = STATUS_UNKNOWN
    THEN TRUE
    ELSE IF fis.status = STATUS_DELETED /\ ExcludesDeleted(fio)
         THEN TRUE
         ELSE FALSE

\* FileImportStatus.ShouldImport
ShouldImport(fis, fio) ==
    IF fis.status = STATUS_UNKNOWN
    THEN TRUE
    ELSE IF fis.status = STATUS_DELETED /\ ~ ExcludesDeleted(fio)
         THEN TRUE
         ELSE FALSE

(***************************************************************************)
(* The client files manager: the stored files, each under its hash and     *)
(* mime.                                                                   *)
(***************************************************************************)
\* client_files_manager.GetFilePath( hash, mime ) raises FileMissingException
\* when no file is stored under the hash and mime
FileMissing(files, hash, mime) ==
    ~ \E f \in files : f.hash = hash /\ f.mime = mime

\* client_files_manager.AddFile( hash, mime, temp_path ): copies the file at the
\* path to the place its hash and mime name, unless a file is there already
AddFile(files, hash, mime, bytes) ==
    IF FileMissing(files, hash, mime)
    THEN files \cup { [ hash |-> hash, mime |-> mime, bytes |-> bytes ] }
    ELSE files

\* the note CheckFileImportStatus gives a status it demotes
MissingNote == << "The client believed this file was already in the db, but it was truly missing! Import will go ahead, in an attempt to fix the situation." >>

\* a slip in CheckFileImportStatus: the store is probed for a status of any code
CheckFileImportStatusProbesAll(fis, files) ==
    IF fis.hash = None \/ fis.mime = None
    THEN fis
    ELSE IF FileMissing(files, fis.hash, fis.mime)
         THEN FileImportStatus(STATUS_UNKNOWN, fis.hash, fis.mime, MissingNote)
         ELSE fis

\* a slip in CheckFileImportStatus: the demoted status loses its mime
CheckFileImportStatusDropsMime(fis, files) ==
    IF AlreadyInDB(fis)
    THEN IF fis.hash = None \/ fis.mime = None
         THEN fis
         ELSE IF FileMissing(files, fis.hash, fis.mime)
              THEN FileImportStatus(STATUS_UNKNOWN, fis.hash, None, NoNote)
              ELSE fis
    ELSE fis

\* a slip in CheckFileImportStatus: the missing file is not noticed
CheckFileImportStatusNoProbe(fis, files) == fis

\* CheckFileImportStatus
CheckFileImportStatus(fis, files) ==
    IF AlreadyInDB(fis)
    THEN IF fis.hash = None \/ fis.mime = None
         THEN fis
         ELSE IF FileMissing(files, fis.hash, fis.mime)
              THEN FileImportStatus(STATUS_UNKNOWN, fis.hash, fis.mime, MissingNote)
              ELSE fis
    ELSE fis

(***************************************************************************)
(* FileImportOptions.                                                      *)
(***************************************************************************)
\* FileImportOptions.__init__: the defaults
DefaultOptions ==
    [ exclude_deleted |-> TRUE,
      do_not_check_known_urls_before_importing |-> FALSE,
      do_not_check_hashes_before_importing |-> FALSE,
      allow_decompression_bombs |-> TRUE,
      min_size |-> NoInt, max_size |-> NoInt, max_gif_size |-> NoInt,
      min_resolution |-> NoInt, max_resolution |-> NoInt,
      automatic_archive |-> FALSE,
      associate_primary_urls |-> TRUE,
      associate_source_urls |-> TRUE,
      present_new_files |-> TRUE,
      present_already_in_inbox_files |-> TRUE,
      present_already_in_archive_files |-> TRUE ]

\* the text of a FileSizeException: what was measured, the rule broken, the limit
SizeMessage(size, rule, limit) == << "File was", << size >>, rule, << limit >> >>
ResolutionMessage(width, height, rule, limit) == << "File had resolution", << width, height >>, rule, limit >>
RuleMinSize == "but the lower limit is"
RuleMaxSize == "but the upper limit is"
RuleMaxGifSize == "but the upper limit for gifs is"
RuleMinResolution == "but the lower limit is"
RuleMaxResolution == "but the upper limit is"

\* the four comparisons of the resolution rules
TooThin(fio, width) == Len(width) > 0 /\ width[1] < fio.min_resolution[1]
TooShort(fio, height) == Len(height) > 0 /\ height[1] < fio.min_resolution[2]
TooWide(fio, width) == Len(width) > 0 /\ width[1] > fio.max_resolution[1]
TooTall(fio, height) == Len(height) > 0 /\ height[1] > fio.max_resolution[2]

\* a slip in CheckFileIsValid: the resolution rules are tried before the size rules
CheckFileIsValidResolutionFirst(fio, size, mime, width, height) ==
    IF Len(fio.min_resolution) > 0 /\ (TooThin(fio, width) \/ TooShort(fio, height))
    THEN ResolutionMessage(width, height, RuleMinResolution, fio.min_resolution)
    ELSE IF Len(fio.max_resolution) > 0 /\ (TooWide(fio, width) \/ TooTall(fio, height))
    THEN ResolutionMessage(width, height, RuleMaxResolution, fio.max_resolution)
    ELSE IF Len(fio.min_size) > 0 /\ size < fio.min_size[1]
    THEN SizeMessage(size, RuleMinSize, fio.min_size[1])
    ELSE IF Len(fio.max_size) > 0 /\ size > fio.max_size[1]
    THEN SizeMessage(size, RuleMaxSize, fio.max_size[1])
    ELSE IF mime = IMAGE_GIF /\ Len(fio.max_gif_size) > 0 /\ size > fio.max_gif_size[1]
    THEN SizeMessage(size, RuleMaxGifSize, fio.max_gif_size[1])
    ELSE NoNote

\* a slip in CheckFileIsValid: no rule is enforced
CheckFileIsValidNever(fio, size, mime, width, height) == NoNote

\* a slip in CheckFileIsValid: a file as large as the upper limit is refused
CheckFileIsValidInclusive(fio, size, mime, width, height) ==
    IF Len(fio.min_size) > 0 /\ size < fio.min_size[1]
    THEN SizeMessage(size, RuleMinSize, fio.min_size[1])
    ELSE IF Len(fio.max_size) > 0 /\ size >= fio.max_size[1]
    THEN SizeMessage(size, RuleMaxSize, fio.max_size[1])
    ELSE IF mime = IMAGE_GIF /\ Len(fio.max_gif_size) > 0 /\ size > fio.max_gif_size[1]
    THEN SizeMessage(size, RuleMaxGifSize, fio.max_gif_size[1])
    ELSE IF Len(fio.min_resolution) > 0 /\ (TooThin(fio, width) \/ TooShort(fio, height))
    THEN ResolutionMessage(width, height, RuleMinResolution, fio.min_resolution)
    ELSE IF Len(fio.max_resolution) > 0 /\ (TooWide(fio, width) \/ TooTall(fio, height))
    THEN ResolutionMessage(width, height, RuleMaxResolution, fio.max_resolution)
    ELSE NoNote

\* FileImportOptions.CheckFileIsValid: the text of the FileSizeException it raises,
\* or no text when it returns
CheckFileIsValid(fio, size, mime, width, height) ==
    IF Len(fio.min_size) > 0 /\ size < fio.min_size[1]
    THEN SizeMessage(size, RuleMinSize, fio.min_size[1])
    ELSE IF Len(fio.max_size) > 0 /\ size > fio.max_size[1]
    THEN SizeMessage(size, RuleMaxSize, fio.max_size[1])
    ELSE IF mime = IMAGE_GIF /\ Len(fio.max_gif_size) > 0 /\ size > fio.max_gif_size[1]
    THEN SizeMessage(size, RuleMaxGifSize, fio.max_gif_size[1])
    ELSE IF Len(fio.min_resolution) > 0 /\ (TooThin(fio, width) \/ TooShort(fio, height))
    THEN ResolutionMessage(width, height, RuleMinResolution, fio.min_resolution)
    ELSE IF Len(fio.max_resolution) > 0 /\ (TooWide(fio, width) \/ TooTall(fio, height))
    THEN ResolutionMessage(width, height, RuleMaxResolution, fio.max_resolution)
    ELSE NoNote

\* the text of the FileSizeException of a download: the prefix, what was counted,
\* the rule broken, the limit
DownloadMessage(error_prefix, num_bytes, rule, limit) ==
    << error_prefix, << num_bytes >>, rule, << limit >> >>
PrefixApparently == "Download was apparently"
PrefixAtLeast == "Download was at least"

\* a slip in CheckNetworkDownload: the lower limit is tried on a download whose
\* size is not complete
CheckNetworkDownloadAlwaysMin(fio, possible_mime, num_bytes, is_complete_file_size) ==
    LET error_prefix == IF is_complete_file_size THEN PrefixApparently ELSE PrefixAtLeast
    IN  IF possible_mime # None /\ possible_mime = IMAGE_GIF
           /\ Len(fio.max_gif_size) > 0 /\ num_bytes > fio.max_gif_size[1]
        THEN DownloadMessage(error_prefix, num_bytes, RuleMaxGifSize, fio.max_gif_size[1])
        ELSE IF Len(fio.max_size) > 0 /\ num_bytes > fio.max_size[1]
        THEN DownloadMessage(error_prefix, num_bytes, RuleMaxSize, fio.max_size[1])
        ELSE IF Len(fio.min_size) > 0 /\ num_bytes < fio.min_size[1]
        THEN DownloadMessage(error_prefix, num_bytes, RuleMinSize, fio.min_size[1])
        ELSE NoNote

\* FileImportOptions.CheckNetworkDownload: the text of the FileSizeException it
\* raises, or no text when it returns
CheckNetworkDownload(fio, possible_mime, num_bytes, is_complete_file_size) ==
    LET error_prefix == IF is_complete_file_size THEN PrefixApparently ELSE PrefixAtLeast
    IN  IF possible_mime # None /\ possible_mime = IMAGE_GIF
           /\ Len(fio.max_gif_size) > 0 /\ num_bytes > fio.max_gif_size[1]
        THEN DownloadMessage(error_prefix, num_bytes, RuleMaxGifSize, fio.max_gif_size[1])
        ELSE IF Len(fio.max_size) > 0 /\ num_bytes > fio.max_size[1]
        THEN DownloadMessage(error_prefix, num_bytes, RuleMaxSize, fio.max_size[1])
        ELSE IF is_complete_file_size /\ Len(fio.min_size) > 0 /\ num_bytes < fio.min_size[1]
        THEN DownloadMessage(error_prefix, num_bytes, RuleMinSize, fio.min_size[1])
        ELSE NoNote

\* FileImportOptions.SERIALISABLE_VERSION
SERIALISABLE_VERSION == 5

\* FileImportOptions._GetSerialisableInfo: the options as the three tuples of the
\* current version
GetSerialisableInfo(fio) ==
    << << fio.exclude_deleted, fio.do_not_check_known_urls_before_importing,
          fio.do_not_check_hashes_before_importing, fio.allow_decompression_bombs,
          fio.min_size, fio.max_size, fio.max_gif_size, fio.min_resolution,
          fio.max_resolution >>,
       << fio.automatic_archive, fio.associate_primary_urls, fio.associate_source_urls >>,
       << fio.present_new_files, fio.present_already_in_inbox_files,
          fio.present_already_in_archive_files >> >>

\* a slip in _InitialiseFromSerialisableInfo: the two url options change places
InitialiseFromSerialisableInfoSwapped(serialisable_info) ==
    LET pre_import_options == serialisable_info[1]
        post_import_options == serialisable_info[2]
        presentation_options == serialisable_info[3]
    IN  [ exclude_deleted |-> pre_import_options[1],
          do_not_check_known_urls_before_importing |-> pre_import_options[2],
          do_not_check_hashes_before_importing |-> pre_import_options[3],
          allow_decompression_bombs |-> pre_import_options[4],
          min_size |-> pre_import_options[5],
          max_size |-> pre_import_options[6],
          max_gif_size |-> pre_import_options[7],
          min_resolution |-> pre_import_options[8],
          max_resolution |-> pre_import_options[9],
          automatic_archive |-> post_import_options[1],
          associate_primary_urls |-> post_import_options[3],
          associate_source_urls |-> post_import_options[2],
          present_new_files |-> presentation_options[1],
          present_already_in_inbox_files |-> presentation_options[2],
          present_already_in_archive_files |-> presentation_options[3] ]

\* FileImportOptions._InitialiseFromSerialisableInfo: the options of the three tuples
\* of the current version
InitialiseFromSerialisableInfo(serialisable_info) ==
    LET pre_import_options == serialisable_info[1]
        post_import_options == serialisable_info[2]
        presentation_options == serialisable_info[3]
    IN  [ exclude_deleted |-> pre_import_options[1],
          do_not_check_known_urls_before_importing |-> pre_import_options[2],
          do_not_check_hashes_before_importing |-> pre_import_options[3],
          allow_decompression_bombs |-> pre_import_options[4],
          min_size |-> pre_import_options[5],
          max_size |-> pre_import_options[6],
          max_gif_size |-> pre_import_options[7],
          min_resolution |-> pre_import_options[8],
          max_resolution |-> pre_import_options[9],
          automatic_archive |-> post_import_options[1],
          associate_primary_urls |-> post_import_options[2],
          associate_source_urls |-> post_import_options[3],
          present_new_files |-> presentation_options[1],
          present_already_in_inbox_files |-> presentation_options[2],
          present_already_in_archive_files |-> presentation_options[3] ]

\* what a method that ends without a return statement returns
NoReturn == << >>

\* the four steps of _UpdateSerialisableInfo, each from the tuple of its version
UpdateFrom1(old_serialisable_info) ==
    LET automatic_archive == old_serialisable_info[1]
        exclude_deleted == old_serialisable_info[2]
        min_size == old_serialisable_info[3]
        min_resolution == old_serialisable_info[4]
        present_new_files == TRUE
        present_already_in_inbox_files == FALSE
        present_already_in_archive_files == FALSE
    IN  << 2, << automatic_archive, exclude_deleted, present_new_files,
                 present_already_in_inbox_files, present_already_in_archive_files,
                 min_size, min_resolution >> >>

UpdateFrom2(old_serialisable_info) ==
    LET automatic_archive == old_serialisable_info[1]
        exclude_deleted == old_serialisable_info[2]
        present_new_files == old_serialisable_info[3]
        present_already_in_inbox_files == old_serialisable_info[4]
        present_already_in_archive_files == old_serialisable_info[5]
        min_size == old_serialisable_info[6]
        min_resolution == old_serialisable_info[7]
        max_size == NoInt
        max_resolution == NoInt
        allow_decompression_bombs == TRUE
        max_gif_size == Some(32 * 1048576)
        pre_import_options == << exclude_deleted, allow_decompression_bombs, min_size,
                                 max_size, max_gif_size, min_resolution, max_resolution >>
        post_import_options == automatic_archive
        presentation_options == << present_new_files, present_already_in_inbox_files,
                                   present_already_in_archive_files >>
    IN  << 3, << pre_import_options, post_import_options, presentation_options >> >>

UpdateFrom3(old_serialisable_info) ==
    LET old_pre_import_options == old_serialisable_info[1]
        old_post_import_options == old_serialisable_info[2]
        presentation_options == old_serialisable_info[3]
        exclude_deleted == old_pre_import_options[1]
        allow_decompression_bombs == old_pre_import_options[2]
        min_size == old_pre_import_options[3]
        max_size == old_pre_import_options[4]
        max_gif_size == old_pre_import_options[5]
        min_resolution == old_pre_import_options[6]
        max_resolution == old_pre_import_options[7]
        automatic_archive == old_post_import_options
        do_not_check_known_urls_before_importing == FALSE
        do_not_check_hashes_before_importing == FALSE
        associate_source_urls == TRUE
        pre_import_options == << exclude_deleted, do_not_check_known_urls_before_importing,
                                 do_not_check_hashes_before_importing,
                                 allow_decompression_bombs, min_size, max_size,
                                 max_gif_size, min_resolution, max_resolution >>
        post_import_options == << automatic_archive, associate_source_urls >>
    IN  << 4, << pre_import_options, post_import_options, presentation_options >> >>

UpdateFrom4(old_serialisable_info) ==
    LET pre_import_options == old_serialisable_info[1]
        old_post_import_options == old_serialisable_info[2]
        presentation_options == old_serialisable_info[3]
        automatic_archive == old_post_import_options[1]
        associate_source_urls == old_post_import_options[2]
        associate_primary_urls == TRUE
        post_import_options == << automatic_archive, associate_primary_urls,
                                  associate_source_urls >>
    IN  << 5, << pre_import_options, post_import_options, presentation_options >> >>

\* a slip in _UpdateSerialisableInfo: the step from version 3 writes the old minimum
\* size where the maximum size goes
UpdateSerialisableInfoMovesMinSize(version, old_serialisable_info) ==
    IF version = 1 THEN UpdateFrom1(old_serialisable_info)
    ELSE IF version = 2 THEN UpdateFrom2(old_serialisable_info)
    ELSE IF version = 3
    THEN LET new == UpdateFrom3(old_serialisable_info)
         IN  << 4, << [ new[2][1] EXCEPT ![5] = NoInt, ![6] = new[2][1][5] ],
                      new[2][2], new[2][3] >> >>
    ELSE IF version = 4 THEN UpdateFrom4(old_serialisable_info)
    ELSE NoReturn

\* a slip in _UpdateSerialisableInfo: the step from version 1 presents files that are
\* already in the inbox
UpdateSerialisableInfoPresentsInbox(version, old_serialisable_info) ==
    IF version = 1
    THEN << 2, [ UpdateFrom1(old_serialisable_info)[2] EXCEPT ![4] = TRUE ] >>
    ELSE IF version = 2 THEN UpdateFrom2(old_serialisable_info)
    ELSE IF version = 3 THEN UpdateFrom3(old_serialisable_info)
    ELSE IF version = 4 THEN UpdateFrom4(old_serialisable_info)
    ELSE NoReturn

\* FileImportOptions._UpdateSerialisableInfo: the next version and its tuple; no
\* branch takes the current version, where the method ends without a return
UpdateSerialisableInfo(version, old_serialisable_info) ==
    IF version = 1 THEN UpdateFrom1(old_serialisable_info)
    ELSE IF version = 2 THEN UpdateFrom2(old_serialisable_info)
    ELSE IF version = 3 THEN UpdateFrom3(old_serialisable_info)
    ELSE IF version = 4 THEN UpdateFrom4(old_serialisable_info)
    ELSE NoReturn

\* the load of a persisted instance: _UpdateSerialisableInfo while the version is
\* below the current one, then _InitialiseFromSerialisableInfo; the load also says
\* how many steps it took
RECURSIVE MigrateToCurrent(_, _, _)
MigrateToCurrent(version, serialisable_info, steps) ==
    IF version < SERIALISABLE_VERSION
    THEN LET next == UpdateSerialisableInfo(version, serialisable_info)
         IN  MigrateToCurrent(next[1], next[2], steps + 1)
    ELSE << serialisable_info, steps >>

LoadSerialisableInfo(version, serialisable_info) ==
    LET migrated == MigrateToCurrent(version, serialisable_info, 0)
    IN  [ options |-> InitialiseFromSerialisableInfo(migrated[1]),
          info |-> migrated[1],
          steps |-> migrated[2] ]

\* statements.append( statement ) under its test
AppendIf(test, statement) == IF test THEN << statement >> ELSE << >>

\* GetSummary, the presentation statement
PresentationStatement(fio) ==
    LET presentation_statements ==
            AppendIf(fio.present_new_files, "new")
            \o AppendIf(fio.present_already_in_inbox_files, "already in inbox")
            \o AppendIf(fio.present_already_in_archive_files, "already in archive")
    IN  IF Len(presentation_statements) = 0
        THEN << "not presenting any files" >>
        ELSE IF Len(presentation_statements) = 3
        THEN << "presenting all files" >>
        ELSE << "presenting", presentation_statements, "files" >>

\* a slip in GetSummary: the gif cap is stated before the maximum size
GetSummaryGifCapFirst(fio) ==
    AppendIf(fio.exclude_deleted, << "excluding previously deleted" >>)
    \o AppendIf(~ fio.allow_decompression_bombs, << "excluding decompression bombs" >>)
    \o AppendIf(Len(fio.min_size) > 0, << "excluding <", fio.min_size >>)
    \o AppendIf(Len(fio.max_gif_size) > 0, << "excluding gifs >", fio.max_gif_size >>)
    \o AppendIf(Len(fio.max_size) > 0, << "excluding >", fio.max_size >>)
    \o AppendIf(Len(fio.min_resolution) > 0, << "excluding < (", fio.min_resolution >>)
    \o AppendIf(Len(fio.max_resolution) > 0, << "excluding > (", fio.max_resolution >>)
    \o AppendIf(fio.automatic_archive, << "automatically archiving" >>)
    \o << PresentationStatement(fio) >>

\* FileImportOptions.GetSummary: the statements it joins, each with the limit it shows
GetSummary(fio) ==
    AppendIf(fio.exclude_deleted, << "excluding previously deleted" >>)
    \o AppendIf(~ fio.allow_decompression_bombs, << "excluding decompression bombs" >>)
    \o AppendIf(Len(fio.min_size) > 0, << "excluding <", fio.min_size >>)
    \o AppendIf(Len(fio.max_size) > 0, << "excluding >", fio.max_size >>)
    \o AppendIf(Len(fio.max_gif_size) > 0, << "excluding gifs >", fio.max_gif_size >>)
    \o AppendIf(Len(fio.min_resolution) > 0, << "excluding < (", fio.min_resolution >>)
    \o AppendIf(Len(fio.max_resolution) > 0, << "excluding > (", fio.max_resolution >>)
    \o AppendIf(fio.automatic_archive, << "automatically archiving" >>)
    \o << PresentationStatement(fio) >>

\* the options the jobs of the pipeline are given: the defaults; a size cap with
\* archiving; importing deleted files again, testing for bombs, archiving, with
\* lower limits
JobOptions ==
    { DefaultOptions,
      [ DefaultOptions EXCEPT !.max_size = Some(1), !.automatic_archive = TRUE ],
      [ DefaultOptions EXCEPT !.exclude_deleted = FALSE, !.allow_decompression_bombs = FALSE,
                              !.automatic_archive = TRUE, !.min_size = Some(3),
                              !.min_resolution = << 3, 3 >> ] }

(***************************************************************************)
(* The database, as far as the pipeline reads and writes it: for each      *)
(* hash, whether the file is current or was deleted, and its mime.         *)
(***************************************************************************)
HashValues == Hashes \cup { None }
NoRow == [ state |-> "absent", mime |-> None ]

\* Read( 'hash_status', 'sha256', hash ): the status the database has for the
\* hash; carried is the hash the returned status holds
HashStatus(rows, hash, carried) ==
    CASE rows[hash].state = "current" ->
           FileImportStatus(STATUS_SUCCESSFUL_BUT_REDUNDANT, carried, rows[hash].mime, << "file recognised" >>)
      [] rows[hash].state = "deleted" ->
           FileImportStatus(STATUS_DELETED, carried, None, << "file recognised: deleted" >>)
      [] OTHER -> FileImportStatus(STATUS_UNKNOWN, carried, None, NoNote)

\* WriteSynchronous( 'import_file', job ), its result: a file the database holds
\* is reported redundant, any other is added and reported new
ImportFileStatus(rows, hash, mime) ==
    IF rows[hash].state = "current"
    THEN FileImportStatus(STATUS_SUCCESSFUL_BUT_REDUNDANT, hash, rows[hash].mime, << "file recognised by database" >>)
    ELSE FileImportStatus(STATUS_SUCCESSFUL_AND_NEW, hash, mime, NoNote)

\* WriteSynchronous( 'import_file', job ), its effect on the database
ImportFileRows(rows, hash, mime) ==
    IF rows[hash].state = "current"
    THEN rows
    ELSE [ rows EXCEPT ![hash] = [ state |-> "current", mime |-> mime ] ]

(***************************************************************************)
(* FileImportJob.                                                          *)
(***************************************************************************)
Jobs == { "job1", "job2" }

VARIABLES
    db,            \* the database's rows, by hash
    client_files,  \* the files the client files manager stores
    job,           \* the FileImportJob of each worker, and where its DoWork stands
    runs,          \* jobs constructed so far
    drift,         \* files removed or deleted by the environment so far
    imported,      \* by hash: the status returned by a run that committed the file,
                   \* while the file stays in the database and the store
    call,          \* a method called on its own: its name and arguments
    result         \* what that call returned or raised

vars == << db, client_files, job, runs, drift, imported, call, result >>
\* the variables of the calls made on their own
alone == << call, result >>
\* no method has been called on its own
NoCall == [ op |-> "none" ]

\* FileImportJob.__init__
NewJob(bytes, fio) ==
    [ pc |-> "constructed",
      temp_file |-> bytes,
      given_file |-> bytes,
      file_import_options |-> fio,
      pre_import_file_status |-> STATICGetUnknownStatus,
      post_import_file_status |-> STATICGetUnknownStatus,
      file_info |-> << >>,
      thumbnail_bytes |-> << >>,
      phashes |-> << >>,
      extra_hashes |-> << >>,
      file_modified_timestamp |-> << >>,
      hash |-> None,
      looked_up |-> << >>,
      prior |-> << >>,
      probed |-> << >>,
      added |-> << >>,
      written |-> << >>,
      after |-> { },
      ok_to_go |-> << >>,
      error |-> << >>,
      returned |-> << >>,
      content_updates |-> << >>,
      status_hook |-> FALSE,
      hooked |-> << >>,
      calls |-> << >> ]

\* a worker with no job
NoJob == [ NewJob("pngA", DefaultOptions) EXCEPT !.pc = "idle" ]

\* if status_hook is not None: status_hook( text ).  The hook is the caller's; it is
\* handed the text and what it returns is dropped
StatusHook(jb, text) ==
    IF jb.status_hook THEN [ jb EXCEPT !.hooked = Append(@, text) ] ELSE jb

Init ==
    /\ db = [ h \in HashValues |-> NoRow ]
    /\ client_files = { }
    /\ job = [ j \in Jobs |-> NoJob ]
    /\ runs = 0
    /\ drift = 0
    /\ imported = [ h \in HashValues |-> << >> ]
    /\ call = NoCall
    /\ result = << >>

\* a caller constructs a job for a temp file and its options; the worker's last job,
\* if any, has returned or raised.  The pool hands its first job to the first worker.
Construct(j) ==
    /\ job[j].pc \in { "idle", "returned", "raised" }
    /\ runs < MaxRuns
    /\ runs = 0 => j = "job1"
    /\ \E bytes \in Files, fio \in JobOptions :
          job' = [ k \in Jobs |-> IF k = j
                                  THEN NewJob(bytes, fio)
                                  ELSE [ job[k] EXCEPT !.after = @ \ { j } ] ]
    /\ runs' = runs + 1
    /\ UNCHANGED << db, client_files, drift, imported, alone >>

\* a slip in GeneratePreImportHashAndStatus: the file is hashed as it was given
HashAsGiven(jb) ==
    [ StatusHook(jb, "calculating hash") EXCEPT !.pc = "hashed",
                !.hash = GetHashFromPath(jb.temp_file),
                !.calls = Append(@, "GetHashFromPath") ]

\* GeneratePreImportHashAndStatus, to the hash: a BMP is rewritten as a PNG in place
\* and the file at the path is hashed
GenerateHash(jb) ==
    [ StatusHook(jb, "calculating hash") EXCEPT !.pc = "hashed",
                !.temp_file = ConvertToPNGIfBMP(jb.temp_file),
                !.hash = GetHashFromPath(ConvertToPNGIfBMP(jb.temp_file)),
                !.calls = Append(@, "GetHashFromPath") ]

DoGenerateHash(j) ==
    /\ job[j].pc = "constructed"
    /\ job' = [ job EXCEPT ![j] = [ GenerateHash(job[j]) EXCEPT !.prior = imported[GenerateHash(job[j]).hash] ] ]
    /\ UNCHANGED << db, client_files, runs, drift, imported, alone >>

\* a slip in GeneratePreImportHashAndStatus: the status keeps the hash it came with
KeepCarriedHash(jb, fis) ==
    [ StatusHook(jb, "checking for file status") EXCEPT !.pc = "looked_up",
                !.pre_import_file_status = fis,
                !.looked_up = << fis >>,
                !.calls = Append(@, "hash_status") ]

\* a slip in GeneratePreImportHashAndStatus: the computed hash is given only to a
\* status that came with none
ForceHashOnlyIfNone(jb, fis) ==
    [ StatusHook(jb, "checking for file status") EXCEPT !.pc = "looked_up",
                !.pre_import_file_status = IF fis.hash = None THEN [ fis EXCEPT !.hash = jb.hash ] ELSE fis,
                !.looked_up = << fis >>,
                !.calls = Append(@, "hash_status") ]

\* GeneratePreImportHashAndStatus, the lookup: the status the database returned is
\* kept with the computed hash forced on it
SetPreImportStatus(jb, fis) ==
    [ StatusHook(jb, "checking for file status") EXCEPT !.pc = "looked_up",
                !.pre_import_file_status = [ fis EXCEPT !.hash = jb.hash ],
                !.looked_up = << fis >>,
                !.calls = Append(@, "hash_status") ]

DoLookup(j) ==
    /\ job[j].pc = "hashed"
    /\ \E carried \in { job[j].hash, None } :
          job' = [ job EXCEPT ![j] = SetPreImportStatus(job[j], HashStatus(db, job[j].hash, carried)) ]
    /\ UNCHANGED << db, client_files, runs, drift, imported, alone >>

\* GeneratePreImportHashAndStatus, the end: the status is checked against the store
Reconcile(jb, files) ==
    [ jb EXCEPT !.pc = "reconciled",
                !.pre_import_file_status = CheckFileImportStatus(jb.pre_import_file_status, files),
                !.probed = << FileMissing(files, jb.pre_import_file_status.hash, jb.pre_import_file_status.mime) >>,
                !.calls = IF AlreadyInDB(jb.pre_import_file_status)
                             /\ jb.pre_import_file_status.hash # None
                             /\ jb.pre_import_file_status.mime # None
                          THEN Append(@, "GetFilePath")
                          ELSE @ ]

DoReconcile(j) ==
    /\ job[j].pc = "looked_up"
    /\ job' = [ job EXCEPT ![j] = Reconcile(job[j], client_files) ]
    /\ UNCHANGED << db, client_files, runs, drift, imported, alone >>

\* DoWork, the branch on ShouldImport: a status that should not be imported is
\* copied to the post-import status
Decide(jb) ==
    IF ShouldImport(jb.pre_import_file_status, jb.file_import_options)
    THEN [ jb EXCEPT !.pc = "generate_info" ]
    ELSE [ jb EXCEPT !.pc = "publish",
                     !.post_import_file_status = Duplicate(jb.pre_import_file_status) ]

DoDecide(j) ==
    /\ job[j].pc = "reconciled"
    /\ job' = [ job EXCEPT ![j] = Decide(job[j]) ]
    /\ UNCHANGED << db, client_files, runs, drift, imported, alone >>

\* GenerateInfo, the mime: the one the status has, or the sniffed one
InfoMime(jb) ==
    IF jb.pre_import_file_status.mime = None
    THEN [ StatusHook(jb, "generating filetype")
             EXCEPT !.pre_import_file_status.mime = GetMime(jb.temp_file),
                     !.calls = Append(@, "GetMime") ]
    ELSE jb

\* a slip in GenerateInfo: every image of the class is tested, whatever the options
InfoBombIgnoresOptions(jb) ==
    IF jb.pre_import_file_status.mime \in DECOMPRESSION_BOMB_IMAGES
    THEN IF IsDecompressionBomb(jb.temp_file)
         THEN [ jb EXCEPT !.pc = "raised",
                          !.error = << "DecompressionBombException" >>,
                          !.calls = Append(@, "IsDecompressionBomb") ]
         ELSE [ jb EXCEPT !.calls = Append(@, "IsDecompressionBomb") ]
    ELSE jb

\* GenerateInfo, the decompression bomb test: raises DecompressionBombException
InfoBomb(jb) ==
    IF jb.pre_import_file_status.mime \in DECOMPRESSION_BOMB_IMAGES
       /\ ~ AllowsDecompressionBombs(jb.file_import_options)
    THEN IF IsDecompressionBomb(jb.temp_file)
         THEN [ jb EXCEPT !.pc = "raised",
                          !.error = << "DecompressionBombException" >>,
                          !.calls = Append(@, "IsDecompressionBomb") ]
         ELSE [ jb EXCEPT !.calls = Append(@, "IsDecompressionBomb") ]
    ELSE jb

\* GenerateInfo, the file info
InfoFileInfo(jb) ==
    [ StatusHook(jb, "generating file metadata") EXCEPT !.file_info = << GetFileInfo(jb.temp_file, jb.pre_import_file_status.mime) >>,
                !.calls = Append(@, "GetFileInfo") ]

\* a slip in GenerateInfo: the thumbnail is made under the test for a hook
InfoThumbnailOnlyHooked(jb) ==
    IF jb.file_info[1].mime \in MIMES_WITH_THUMBNAILS /\ jb.status_hook
    THEN IF ThumbnailRenders(jb.temp_file)
         THEN [ StatusHook(jb, "generating thumbnail")
                  EXCEPT !.thumbnail_bytes = << "thumbnail" >>,
                          !.calls = Append(@, "GenerateThumbnailBytes") ]
         ELSE [ StatusHook(jb, "generating thumbnail")
                  EXCEPT !.pc = "raised",
                          !.error = << "DamagedOrUnusualFileException" >>,
                          !.calls = Append(@, "GenerateThumbnailBytes") ]
    ELSE jb

\* GenerateInfo, the thumbnail: a failure is raised as DamagedOrUnusualFileException
InfoThumbnail(jb) ==
    IF jb.file_info[1].mime \in MIMES_WITH_THUMBNAILS
    THEN IF ThumbnailRenders(jb.temp_file)
         THEN [ StatusHook(jb, "generating thumbnail")
                  EXCEPT !.thumbnail_bytes = << "thumbnail" >>,
                          !.calls = Append(@, "GenerateThumbnailBytes") ]
         ELSE [ StatusHook(jb, "generating thumbnail")
                  EXCEPT !.pc = "raised",
                          !.error = << "DamagedOrUnusualFileException" >>,
                          !.calls = Append(@, "GenerateThumbnailBytes") ]
    ELSE jb

\* GenerateInfo, the perceptual hashes
InfoPHashes(jb) ==
    IF jb.file_info[1].mime \in MIMES_WE_CAN_PHASH
    THEN [ StatusHook(jb, "generating similar files metadata")
             EXCEPT !.phashes = << "phashes" >>,
                     !.calls = Append(@, "GenerateShapePerceptualHashes") ]
    ELSE jb

\* GenerateInfo, the other hashes and the modified timestamp
InfoExtra(jb) ==
    [ StatusHook(jb, "generating additional hashes") EXCEPT !.pc = "check",
                !.extra_hashes = << "extra_hashes" >>,
                !.file_modified_timestamp = << "timestamp" >>,
                !.calls = Append(@, "GetExtraHashesFromPath") ]

\* a slip in GenerateInfo: the fatal faults are swallowed
GenerateInfoSwallows(jb) ==
    InfoExtra(InfoPHashes(
        [ InfoThumbnail(InfoFileInfo([ InfoBomb(InfoMime(jb)) EXCEPT !.pc = "generate_info", !.error = << >> ]))
            EXCEPT !.pc = "generate_info", !.error = << >> ]))

\* a slip in GenerateInfo: it stops at the file info, and leaves the thumbnail, the
\* perceptual hashes and the other hashes for later
GenerateInfoStopsAtFileInfo(jb) ==
    LET bombed == InfoBomb(InfoMime(jb))
    IN  IF bombed.pc = "raised"
        THEN bombed
        ELSE [ InfoFileInfo(bombed) EXCEPT !.pc = "check" ]

\* FileImportJob.GenerateInfo: a raise ends it where it stands
GenerateInfo(jb) ==
    LET bombed == InfoBomb(InfoMime(jb))
        thumbed == InfoThumbnail(InfoFileInfo(bombed))
    IN  IF bombed.pc = "raised"
        THEN bombed
        ELSE IF thumbed.pc = "raised"
             THEN thumbed
             ELSE InfoExtra(InfoPHashes(thumbed))

DoGenerateInfo(j) ==
    /\ job[j].pc = "generate_info"
    /\ job' = [ job EXCEPT ![j] = GenerateInfo(job[j]) ]
    /\ UNCHANGED << db, client_files, runs, drift, imported, alone >>

\* a slip in DoWork: the vetoed status is not given the exception's text
VetoedStatusNoNote(fis, message) ==
    [ Duplicate(fis) EXCEPT !.status = STATUS_VETOED ]

\* DoWork, the except branch: the copy of the pre-import status that is vetoed
VetoedStatus(fis, message) ==
    [ Duplicate(fis) EXCEPT !.status = STATUS_VETOED, !.note = message ]

\* a slip in DoWork: a vetoed file is committed all the same
CheckIsGoodToImportIgnored(jb) ==
    [ jb EXCEPT !.pc = "add_file", !.ok_to_go = << TRUE >>, !.calls = Append(@, "CheckFileIsValid") ]

\* FileImportJob.CheckIsGoodToImport and DoWork's try around it
CheckIsGoodToImport(jb) ==
    LET info == jb.file_info[1]
        message == CheckFileIsValid(jb.file_import_options, info.size, info.mime, info.width, info.height)
    IN  IF message = NoNote
        THEN [ jb EXCEPT !.pc = "add_file",
                         !.ok_to_go = << TRUE >>,
                         !.calls = Append(@, "CheckFileIsValid") ]
        ELSE [ jb EXCEPT !.pc = "publish",
                         !.ok_to_go = << FALSE >>,
                         !.post_import_file_status = VetoedStatus(jb.pre_import_file_status, message),
                         !.calls = Append(@, "CheckFileIsValid") ]

DoCheckIsGoodToImport(j) ==
    /\ job[j].pc = "check"
    /\ job' = [ job EXCEPT ![j] = CheckIsGoodToImport(job[j]) ]
    /\ UNCHANGED << db, client_files, runs, drift, imported, alone >>

\* a slip in DoWork: the copy into the store is made twice
CopyIntoStorageTwice(jb) ==
    [ StatusHook(jb, "copying file into file storage")
        EXCEPT !.pc = "import_file",
               !.added = << jb.pre_import_file_status.hash, jb.pre_import_file_status.mime >>,
               !.calls = Append(Append(@, "AddFile"), "AddFile") ]

\* DoWork, ok_to_go: the job around its call of AddFile
CopyIntoStorage(jb) ==
    [ StatusHook(jb, "copying file into file storage")
        EXCEPT !.pc = "import_file",
               !.added = << jb.pre_import_file_status.hash, jb.pre_import_file_status.mime >>,
               !.calls = Append(@, "AddFile") ]

\* a slip in DoWork: the temp file is moved into the store, not copied
DoAddFileMoves(j) ==
    /\ job[j].pc = "add_file"
    /\ client_files' = AddFile(client_files, job[j].pre_import_file_status.hash,
                               job[j].pre_import_file_status.mime, job[j].temp_file)
    /\ job' = [ job EXCEPT ![j] = [ CopyIntoStorage(job[j]) EXCEPT !.temp_file = "moved" ] ]
    /\ UNCHANGED << db, runs, drift, imported, alone >>

\* DoWork, ok_to_go: the file is copied into the store under the job's hash and mime
DoAddFile(j) ==
    /\ job[j].pc = "add_file"
    /\ client_files' = AddFile(client_files, job[j].pre_import_file_status.hash,
                               job[j].pre_import_file_status.mime, job[j].temp_file)
    /\ job' = [ job EXCEPT ![j] = CopyIntoStorage(job[j]) ]
    /\ UNCHANGED << db, runs, drift, imported, alone >>

\* a slip in DoWork: the post-import status is made from the pre-import status
ImportResultFromPre(jb, fis) ==
    [ StatusHook(jb, "importing to database") EXCEPT !.pc = "publish",
                !.post_import_file_status = [ Duplicate(jb.pre_import_file_status) EXCEPT !.status = STATUS_SUCCESSFUL_AND_NEW ],
                !.calls = Append(@, "import_file") ]

\* a slip in DoWork: the status 'import_file' returned is kept without its note
ImportResultDropsNote(jb, fis) ==
    [ StatusHook(jb, "importing to database") EXCEPT !.pc = "publish",
                !.post_import_file_status = [ fis EXCEPT !.note = NoNote ],
                !.calls = Append(@, "import_file") ]

\* DoWork, ok_to_go: the post-import status is what 'import_file' returned
ImportResult(jb, fis) ==
    [ StatusHook(jb, "importing to database") EXCEPT !.pc = "publish",
                !.post_import_file_status = fis,
                !.calls = Append(@, "import_file") ]

\* FileImportJob.GetHash, FileImportJob.GetMime
GetHash(jb) == jb.pre_import_file_status.hash
JobGetMime(jb) == jb.pre_import_file_status.mime

\* whether the run committed its file: it called 'import_file'
Committed(jb) == \E i \in 1..Len(jb.calls) : jb.calls[i] = "import_file"

\* the other jobs whose run called 'import_file' for the same bytes before job j does
ImportedBefore(j) ==
    { k \in Jobs \ { j } : Committed(job[k]) /\ job[k].temp_file = job[j].temp_file }

DoImportFile(j) ==
    /\ job[j].pc = "import_file"
    /\ db' = ImportFileRows(db, GetHash(job[j]), JobGetMime(job[j]))
    /\ job' = [ job EXCEPT ![j] = [ ImportResult(job[j], ImportFileStatus(db, GetHash(job[j]), JobGetMime(job[j])))
                                       EXCEPT !.after = ImportedBefore(j),
                                              !.written = << ImportFileStatus(db, GetHash(job[j]), JobGetMime(job[j])) >> ] ]
    /\ UNCHANGED << client_files, runs, drift, imported, alone >>

\* a slip in PubsubContentUpdates: the archive option is not asked
PubsubContentUpdatesAlways(jb) ==
    IF AlreadyInDB(jb.post_import_file_status)
    THEN << [ action |-> "CONTENT_UPDATE_ARCHIVE", hashes |-> { GetHash(jb) } ] >>
    ELSE << >>

\* FileImportJob.PubsubContentUpdates: the content updates it writes
PubsubContentUpdates(jb) ==
    IF AlreadyInDB(jb.post_import_file_status) /\ AutomaticallyArchives(jb.file_import_options)
    THEN << [ action |-> "CONTENT_UPDATE_ARCHIVE", hashes |-> { GetHash(jb) } ] >>
    ELSE << >>

\* DoWork, the end: the content updates are published and the post-import status
\* is returned
Publish(jb) ==
    [ jb EXCEPT !.pc = "returned",
                !.content_updates = PubsubContentUpdates(jb),
                !.returned = << jb.post_import_file_status >>,
                !.calls = IF PubsubContentUpdates(jb) # << >> THEN Append(@, "content_updates") ELSE @ ]

DoPublish(j) ==
    /\ job[j].pc = "publish"
    /\ job' = [ job EXCEPT ![j] = Publish(job[j]) ]
    /\ imported' = IF /\ Committed(job[j])
                      /\ db[GetHash(job[j])].state = "current"
                      /\ ~ FileMissing(client_files, GetHash(job[j]), db[GetHash(job[j])].mime)
                      /\ imported[GetHash(job[j])] = << >>
                   THEN [ imported EXCEPT ![GetHash(job[j])] = << job[j].post_import_file_status >> ]
                   ELSE imported
    /\ UNCHANGED << db, client_files, runs, drift, alone >>

(***************************************************************************)
(* The environment: outside the jobs, stored files go missing and the user *)
(* deletes files.                                                          *)
(***************************************************************************)
\* who forgets a file that left the store or the database: the running jobs that
\* hashed it no longer follow a run that committed it
Forget(hash) ==
    [ j \in Jobs |-> IF job[j].hash = hash /\ job[j].pc \notin { "returned", "raised" }
                     THEN [ job[j] EXCEPT !.prior = << >> ]
                     ELSE job[j] ]

\* a stored file disappears from the store; the database still lists it
FileGoesMissing ==
    /\ drift < MaxDrift
    /\ \E f \in client_files :
          /\ client_files' = client_files \ { f }
          /\ imported' = [ imported EXCEPT ![f.hash] = << >> ]
          /\ job' = Forget(f.hash)
    /\ drift' = drift + 1
    /\ UNCHANGED << db, runs, alone >>

\* the user deletes a file: the database remembers it as deleted and the store
\* drops it
UserDeletesFile ==
    /\ drift < MaxDrift
    /\ \E h \in Hashes :
          /\ db[h].state = "current"
          /\ db' = [ db EXCEPT ![h].state = "deleted" ]
          /\ client_files' = { f \in client_files : f.hash # h }
          /\ imported' = [ imported EXCEPT ![h] = << >> ]
          /\ job' = Forget(h)
    /\ drift' = drift + 1
    /\ UNCHANGED << runs, alone >>

Next ==
    \/ \E j \in Jobs : Construct(j)
    \/ \E j \in Jobs : DoGenerateHash(j)
    \/ \E j \in Jobs : DoLookup(j)
    \/ \E j \in Jobs : DoReconcile(j)
    \/ \E j \in Jobs : DoDecide(j)
    \/ \E j \in Jobs : DoGenerateInfo(j)
    \/ \E j \in Jobs : DoCheckIsGoodToImport(j)
    \/ \E j \in Jobs : DoAddFile(j)
    \/ \E j \in Jobs : DoImportFile(j)
    \/ \E j \in Jobs : DoPublish(j)
    \/ FileGoesMissing
    \/ UserDeletesFile

Spec == Init /\ [][Next]_vars

(***************************************************************************)
(* Properties of the pipeline.                                             *)
(***************************************************************************)
\* whether the run made the call
Called(jb, name) == \E i \in 1..Len(jb.calls) : jb.calls[i] = name
\* whether the run made the first call before the second
CalledBefore(jb, first, second) ==
    \E i, k \in 1..Len(jb.calls) : i < k /\ jb.calls[i] = first /\ jb.calls[k] = second
\* how many times the run made the call
TimesCalled(jb, name) == Cardinality({ i \in 1..Len(jb.calls) : jb.calls[i] = name })
\* the calls of GenerateInfo
InfoCalls == { "GetMime", "IsDecompressionBomb", "GetFileInfo", "GenerateThumbnailBytes",
               "GenerateShapePerceptualHashes", "GetExtraHashesFromPath" }
\* the run has left DoWork's branch on ShouldImport by the else side
ShortCircuited(jb) == jb.pc \in { "publish", "returned" } /\ jb.ok_to_go = << >>
\* the run has been through CheckIsGoodToImport
Checked(jb) == jb.ok_to_go # << >>

\* C1: a run on the bytes of a file that an earlier run committed and returned, the
\* file staying in the database and the store, returns a status that is already in
\* the db, is not vetoed and has the hash the earlier run returned
C1_SecondRunAlreadyInDB ==
    \A j \in Jobs :
        (job[j].pc = "returned" /\ job[j].prior # << >>) =>
            /\ AlreadyInDB(job[j].returned[1])
            /\ job[j].returned[1].status # STATUS_VETOED
            /\ job[j].returned[1].hash = job[j].prior[1].hash

\* a second run has returned, for a BMP whose PNG an earlier run committed
C1_Witness ==
    \E j \in Jobs :
        /\ job[j].pc = "returned"
        /\ job[j].prior # << >>
        /\ job[j].given_file = "bmpA"
        /\ job[j].prior[1].status = STATUS_SUCCESSFUL_AND_NEW
        /\ AlreadyInDB(job[j].returned[1])

\* C2: a run whose reconciled pre-import status should not be imported returns a
\* status with the code, hash, mime and note of the pre-import status, and calls
\* neither GenerateInfo's helpers nor AddFile nor 'import_file'
C2_ShortCircuit ==
    \A j \in Jobs :
        ( /\ job[j].pc \in { "generate_info", "check", "add_file", "import_file", "raised", "publish", "returned" }
          /\ ~ ShouldImport(job[j].pre_import_file_status, job[j].file_import_options) ) =>
            /\ job[j].pc \in { "publish", "returned" }
            /\ job[j].post_import_file_status = job[j].pre_import_file_status
            /\ job[j].pc = "returned" => job[j].returned = << job[j].pre_import_file_status >>
            /\ \A name \in InfoCalls \cup { "CheckFileIsValid", "AddFile", "import_file" } : ~ Called(job[j], name)

\* a run has returned a previously deleted status untouched, under exclude-deleted
C2_Witness ==
    \E j \in Jobs :
        /\ job[j].pc = "returned"
        /\ job[j].pre_import_file_status.status = STATUS_DELETED
        /\ ExcludesDeleted(job[j].file_import_options)
        /\ job[j].returned[1].status = STATUS_DELETED

\* the text CheckFileIsValid raises for the run's file info, if any
Violation(jb) ==
    CheckFileIsValid(jb.file_import_options, jb.file_info[1].size, jb.file_info[1].mime,
                     jb.file_info[1].width, jb.file_info[1].height)

\* C3: a run whose file info breaks a rule of CheckFileIsValid does not raise: it
\* goes on to return a status that is vetoed, has the computed hash and the
\* exception's text as its note, and it calls neither AddFile nor 'import_file'
C3_Veto ==
    \A j \in Jobs :
        ( /\ job[j].pc \in { "add_file", "import_file", "publish", "returned" }
          /\ job[j].file_info # << >>
          /\ Violation(job[j]) # NoNote ) =>
            /\ job[j].pc \in { "publish", "returned" }
            /\ job[j].error = << >>
            /\ job[j].post_import_file_status.status = STATUS_VETOED
            /\ job[j].post_import_file_status.hash = job[j].hash
            /\ job[j].post_import_file_status.note = Violation(job[j])
            /\ job[j].pc = "returned" => job[j].returned = << job[j].post_import_file_status >>
            /\ ~ Called(job[j], "AddFile")
            /\ ~ Called(job[j], "import_file")

\* a run has returned a vetoed status for a file of size 2 under a size cap of 1
C3_Witness ==
    \E j \in Jobs :
        /\ job[j].pc = "returned"
        /\ job[j].file_info # << >>
        /\ job[j].file_info[1].size = 2
        /\ job[j].file_import_options.max_size = Some(1)
        /\ job[j].returned[1].status = STATUS_VETOED
        /\ job[j].returned[1].note = SizeMessage(2, RuleMaxSize, 1)

\* the archive update for the job's hash
ArchiveUpdate(jb) == [ action |-> "CONTENT_UPDATE_ARCHIVE", hashes |-> { jb.hash } ]

\* C4: a run that has returned wrote exactly one archive update, for its hash, if the
\* returned status is already in the db and the options archive automatically, and
\* wrote none otherwise
C4_ArchiveUpdates ==
    \A j \in Jobs :
        job[j].pc = "returned" =>
            IF job[j].returned[1].status = STATUS_SUCCESSFUL_BUT_REDUNDANT
               /\ job[j].file_import_options.automatic_archive
            THEN job[j].content_updates = << ArchiveUpdate(job[j]) >>
                 /\ TimesCalled(job[j], "content_updates") = 1
            ELSE job[j].content_updates = << >>
                 /\ TimesCalled(job[j], "content_updates") = 0

\* of two runs that archive automatically, the one that returned already in the db
\* wrote one archive update and the one that returned new wrote none
C4_Witness ==
    \E j, k \in Jobs :
        /\ job[j].pc = "returned" /\ job[k].pc = "returned"
        /\ AlreadyInDB(job[j].returned[1])
        /\ job[k].returned[1].status = STATUS_SUCCESSFUL_AND_NEW
        /\ job[j].file_import_options.automatic_archive
        /\ job[k].file_import_options.automatic_archive
        /\ Len(job[j].content_updates) = 1
        /\ Len(job[k].content_updates) = 0

\* the stored copies of the bytes
Copies(bytes) == { f \in client_files : f.bytes = bytes }

\* C5: of two runs on the same bytes that both called 'import_file', with no file
\* removed or deleted meanwhile, the one that called it second returns already in the
\* db with the hash the first returned, and the store holds one copy of the bytes
C5_RaceOneCopy ==
    \A j, k \in Jobs :
        ( /\ drift = 0
          /\ job[j].pc = "returned" /\ job[k].pc = "returned"
          /\ Committed(job[j]) /\ Committed(job[k])
          /\ job[j].temp_file = job[k].temp_file
          /\ k \in job[j].after ) =>
            /\ job[j].returned[1].status = STATUS_SUCCESSFUL_BUT_REDUNDANT
            /\ job[j].returned[1].hash = job[k].returned[1].hash
            /\ Cardinality(Copies(job[j].temp_file)) = 1

\* two runs, one given the BMP and one the PNG, both looked up unknown and both
\* committed
C5_Witness ==
    \E j, k \in Jobs :
        /\ job[j].pc = "returned" /\ job[k].pc = "returned"
        /\ job[j].given_file = "bmpA" /\ job[k].given_file = "pngA"
        /\ job[j].looked_up[1].status = STATUS_UNKNOWN
        /\ job[k].looked_up[1].status = STATUS_UNKNOWN
        /\ Committed(job[j]) /\ Committed(job[k])
        /\ k \in job[j].after

\* the run's file makes GenerateInfo raise: a bomb where bombs are tested for, or a
\* file with a thumbnail that does not render
FatalFault(jb) ==
    \/ /\ jb.pre_import_file_status.mime \in DECOMPRESSION_BOMB_IMAGES
       /\ ~ jb.file_import_options.allow_decompression_bombs
       /\ IsDecompressionBomb(jb.temp_file)
    \/ /\ jb.pre_import_file_status.mime \in MIMES_WITH_THUMBNAILS
       /\ ~ ThumbnailRenders(jb.temp_file)

\* C6: a run that went through GenerateInfo with a fatal fault has raised: it
\* returned nothing, its post-import status is still the initial unknown one, and it
\* called neither AddFile nor 'import_file' nor wrote a content update
C6_FatalPropagates ==
    \A j \in Jobs :
        /\ ( /\ job[j].pc \in { "check", "add_file", "import_file", "raised", "publish", "returned" }
             /\ ~ ShortCircuited(job[j])
             /\ FatalFault(job[j]) ) => job[j].pc = "raised"
        /\ job[j].pc = "raised" =>
            /\ job[j].error # << >>
            /\ job[j].returned = << >>
            /\ job[j].post_import_file_status = STATICGetUnknownStatus
            /\ job[j].content_updates = << >>
            /\ \A name \in { "CheckFileIsValid", "AddFile", "import_file", "content_updates" } :
                  ~ Called(job[j], name)

\* one run has raised on a bomb and another on a thumbnail that does not render
C6_Witness ==
    \E j, k \in Jobs :
        /\ job[j].pc = "raised" /\ job[j].error = << "DecompressionBombException" >>
        /\ job[k].pc = "raised" /\ job[k].error = << "DamagedOrUnusualFileException" >>

\* C8: a run whose lookup returned already in the db with a mime, and whose probe
\* found the file missing, does not short-circuit; once it has returned with
\* ok_to_go, it has called AddFile for the computed hash and then 'import_file'
C8_MissingFileIsImported ==
    \A j \in Jobs :
        ( /\ job[j].probed = << TRUE >>
          /\ AlreadyInDB(job[j].looked_up[1])
          /\ job[j].looked_up[1].mime # None ) =>
            /\ ~ ShortCircuited(job[j])
            /\ job[j].pc \in { "publish", "returned" } => Checked(job[j])
            /\ (job[j].pc = "returned" /\ job[j].ok_to_go = << TRUE >>) =>
                  /\ job[j].added = << job[j].hash, job[j].looked_up[1].mime >>
                  /\ CalledBefore(job[j], "AddFile", "import_file")

\* a run found its file missing from the store and has put it back
C8_Witness ==
    \E j \in Jobs :
        /\ job[j].probed = << TRUE >>
        /\ AlreadyInDB(job[j].looked_up[1])
        /\ job[j].pc = "returned"
        /\ job[j].ok_to_go = << TRUE >>
        /\ ~ FileMissing(client_files, job[j].hash, job[j].pre_import_file_status.mime)

(***************************************************************************)
(* The methods of FileImportStatus and CheckFileImportStatus, called on    *)
(* their own on every status of a bounded set, against every store.        *)
(***************************************************************************)
\* the statuses the methods are called on
Statuses ==
    { FileImportStatus(status, hash, mime, note) :
        status \in StatusCodes, hash \in HashValues, mime \in Mimes \cup { None },
        note \in { NoNote, << "file recognised" >> } }

\* the stores the probe is made against: any of the files under its hash and mime
Stores ==
    SUBSET { [ hash |-> GetHashFromPath(bytes), mime |-> GetMime(bytes), bytes |-> bytes ] :
               bytes \in { "pngA", "pngC", "pdfD" } }

\* the calls of ShouldImport and of CheckFileImportStatus
ShouldImportCalls ==
    { [ op |-> "ShouldImport", fis |-> fis,
        fio |-> [ DefaultOptions EXCEPT !.exclude_deleted = exclude_deleted ] ] :
        fis \in Statuses, exclude_deleted \in BOOLEAN }
CheckFileImportStatusCalls ==
    { [ op |-> "CheckFileImportStatus", fis |-> fis ] : fis \in Statuses }

\* a specification of calls made on their own has no jobs and no database
InitStatus ==
    /\ db = << >>
    /\ client_files \in Stores
    /\ job = << >>
    /\ runs = 0
    /\ drift = 0
    /\ imported = << >>
    /\ call = NoCall
    /\ result = << >>

CallShouldImport ==
    /\ call = NoCall
    /\ call' \in ShouldImportCalls
    /\ result' = << ShouldImport(call'.fis, call'.fio) >>
    /\ UNCHANGED << db, client_files, job, runs, drift, imported >>

CallCheckFileImportStatus ==
    /\ call = NoCall
    /\ call' \in CheckFileImportStatusCalls
    /\ result' = << CheckFileImportStatus(call'.fis, client_files) >>
    /\ UNCHANGED << db, client_files, job, runs, drift, imported >>

NextStatus ==
    \/ CallShouldImport
    \/ CallCheckFileImportStatus

SpecStatus == InitStatus /\ [][NextStatus]_vars

\* C7: CheckFileImportStatus, given a status that is already in the db and has a
\* hash and a mime, when the store has no file under them, returns an unknown
\* status with the same hash and mime and a note that is not empty
C7_SelfHeal ==
    ( /\ call.op = "CheckFileImportStatus"
        /\ call.fis.status = STATUS_SUCCESSFUL_BUT_REDUNDANT
      /\ call.fis.hash # None
      /\ call.fis.mime # None
      /\ FileMissing(client_files, call.fis.hash, call.fis.mime) ) =>
        /\ result[1].status = STATUS_UNKNOWN
        /\ result[1].hash = call.fis.hash
        /\ result[1].mime = call.fis.mime
        /\ Len(result[1].note) > 0

\* a status of a file the store holds others of, but not it, has been demoted
C7_Witness ==
    /\ call.op = "CheckFileImportStatus"
    /\ call.fis.status = STATUS_SUCCESSFUL_BUT_REDUNDANT
    /\ call.fis.hash = "h_pngA"
    /\ call.fis.mime = IMAGE_PNG
    /\ client_files # { }
    /\ FileMissing(client_files, "h_pngA", IMAGE_PNG)
    /\ result[1].status = STATUS_UNKNOWN

\* C9: ShouldImport is true exactly for an unknown status and for a deleted status
\* when the options do not exclude deleted files
C9_ShouldImportTable ==
    (call.op = "ShouldImport") =>
        ( result[1] <=> ( \/ call.fis.status = STATUS_UNKNOWN
                          \/ call.fis.status = STATUS_DELETED /\ ~ call.fio.exclude_deleted ) )

\* a deleted status was refused under exclude-deleted
C9_Witness ==
    /\ call.op = "ShouldImport"
    /\ call.fis.status = STATUS_DELETED
    /\ call.fio.exclude_deleted
    /\ result = << FALSE >>

(***************************************************************************)
(* The checks of FileImportOptions, called on their own with every limit   *)
(* and every file of a bounded set.                                        *)
(***************************************************************************)
\* an optional size, an optional resolution, an optional width or height
SizeLimits == { NoInt } \cup { Some(n) : n \in 0..MaxSize }
ResolutionLimits == { NoInt } \cup { << w, h >> : w \in { 1, MaxDim }, h \in { 1, MaxDim } }
Dimensions == { NoInt } \cup { Some(n) : n \in 0..MaxDim }

\* SetPreImportOptions with the five limits, on the defaults
WithLimits(min_size, max_size, max_gif_size, min_resolution, max_resolution) ==
    [ DefaultOptions EXCEPT !.min_size = min_size, !.max_size = max_size,
                            !.max_gif_size = max_gif_size,
                            !.min_resolution = min_resolution,
                            !.max_resolution = max_resolution ]

\* the options are set before the call: any limits, on the defaults
InitValid ==
    /\ db = << >>
    /\ client_files = { }
    /\ job = << >>
    /\ runs = 0
    /\ drift = 0
    /\ imported = << >>
    /\ \E min_size \in SizeLimits, max_size \in SizeLimits, max_gif_size \in SizeLimits,
          min_resolution \in ResolutionLimits, max_resolution \in ResolutionLimits :
          call = [ op |-> "none",
                   fio |-> WithLimits(min_size, max_size, max_gif_size, min_resolution, max_resolution) ]
    /\ result = << >>

CallCheckFileIsValid ==
    /\ call.op = "none"
    /\ \E size \in 0..MaxSize, mime \in { IMAGE_GIF, IMAGE_PNG },
          width \in Dimensions, height \in Dimensions :
          /\ call' = [ op |-> "CheckFileIsValid", fio |-> call.fio, size |-> size, mime |-> mime,
                       width |-> width, height |-> height ]
          /\ result' = << CheckFileIsValid(call.fio, size, mime, width, height) >>
    /\ UNCHANGED << db, client_files, job, runs, drift, imported >>

\* a download is checked: its mime may not be known yet, its size may not be complete
CallCheckNetworkDownload ==
    /\ call.op = "none"
    /\ \E possible_mime \in { None, IMAGE_GIF, IMAGE_PNG }, num_bytes \in 0..MaxSize,
          is_complete_file_size \in BOOLEAN :
          /\ call' = [ op |-> "CheckNetworkDownload", fio |-> call.fio,
                       possible_mime |-> possible_mime, num_bytes |-> num_bytes,
                       is_complete_file_size |-> is_complete_file_size ]
          /\ result' = << CheckNetworkDownload(call.fio, possible_mime, num_bytes,
                                               is_complete_file_size) >>
    /\ UNCHANGED << db, client_files, job, runs, drift, imported >>

NextValid ==
    \/ CallCheckFileIsValid
    \/ CallCheckNetworkDownload

SpecValid == InitValid /\ [][NextValid]_vars

\* the rules the call's file breaks, by their place in the order min-size, max-size,
\* gif cap, min-resolution, max-resolution
BelowWidth(limit, width) == Len(width) > 0 /\ width[1] < limit[1]
BelowHeight(limit, height) == Len(height) > 0 /\ height[1] < limit[2]
AboveWidth(limit, width) == Len(width) > 0 /\ width[1] > limit[1]
AboveHeight(limit, height) == Len(height) > 0 /\ height[1] > limit[2]
Broken(c) ==
    << c.fio.min_size # NoInt /\ c.size < c.fio.min_size[1],
       c.fio.max_size # NoInt /\ c.size > c.fio.max_size[1],
       c.mime = IMAGE_GIF /\ c.fio.max_gif_size # NoInt /\ c.size > c.fio.max_gif_size[1],
       c.fio.min_resolution # NoInt
          /\ (BelowWidth(c.fio.min_resolution, c.width) \/ BelowHeight(c.fio.min_resolution, c.height)),
       c.fio.max_resolution # NoInt
          /\ (AboveWidth(c.fio.max_resolution, c.width) \/ AboveHeight(c.fio.max_resolution, c.height)) >>

\* the text of the exception of the rule at a place in the order
RuleText(c, i) ==
    CASE i = 1 -> SizeMessage(c.size, "but the lower limit is", c.fio.min_size[1])
      [] i = 2 -> SizeMessage(c.size, "but the upper limit is", c.fio.max_size[1])
      [] i = 3 -> SizeMessage(c.size, "but the upper limit for gifs is", c.fio.max_gif_size[1])
      [] i = 4 -> ResolutionMessage(c.width, c.height, "but the lower limit is", c.fio.min_resolution)
      [] i = 5 -> ResolutionMessage(c.width, c.height, "but the upper limit is", c.fio.max_resolution)

\* C10: CheckFileIsValid raises the exception of the first rule, in the order min-size,
\* max-size, gif cap, min-resolution, max-resolution, that the file breaks
C10_FirstBrokenRuleWins ==
    (call.op = "CheckFileIsValid") =>
        \A i \in 1..5 :
            (Broken(call)[i] /\ \A k \in 1..(i - 1) : ~ Broken(call)[k]) =>
                result[1] = RuleText(call, i)

\* a file below the minimum size and the minimum resolution was refused for its size
C10_Witness ==
    /\ call.op = "CheckFileIsValid"
    /\ Broken(call)[1]
    /\ Broken(call)[4]
    /\ result[1] = SizeMessage(call.size, "but the lower limit is", call.fio.min_size[1])

\* C11: CheckFileIsValid raises exactly when the file breaks a limit that is set: a
\* size below the minimum or above the maximum, a gif above the gif cap, a known
\* width or height below or above its resolution limit; a limit that is not set, a
\* width or height that is not known and a value equal to its limit break nothing
C11_RaisesIffLimitBroken ==
    (call.op = "CheckFileIsValid") =>
        ( (result[1] # NoNote) <=> (\E i \in 1..5 : Broken(call)[i]) )

\* a file as large as both size limits, as wide as both resolution limits and of no
\* known height was accepted
C11_Witness ==
    /\ call.op = "CheckFileIsValid"
    /\ call.fio.min_size = Some(call.size)
    /\ call.fio.max_size = Some(call.size)
    /\ call.fio.min_resolution # NoInt
    /\ call.fio.max_resolution # NoInt
    /\ call.width = Some(call.fio.min_resolution[1])
    /\ call.width = Some(call.fio.max_resolution[1])
    /\ call.height = NoInt
    /\ result[1] = NoNote

\* the three rules of a download, as the call's download breaks them
OverGifCap(c) ==
    c.possible_mime = IMAGE_GIF /\ c.fio.max_gif_size # NoInt /\ c.num_bytes > c.fio.max_gif_size[1]
OverMaxSize(c) == c.fio.max_size # NoInt /\ c.num_bytes > c.fio.max_size[1]
UnderMinSize(c) ==
    c.is_complete_file_size /\ c.fio.min_size # NoInt /\ c.num_bytes < c.fio.min_size[1]
Prefix(c) == IF c.is_complete_file_size THEN "Download was apparently" ELSE "Download was at least"

\* C12: CheckNetworkDownload raises exactly when the download is a gif above the gif
\* cap, or above the maximum size, or complete and below the minimum size; the gif
\* cap is reported before the maximum size, a download that is not complete is never
\* refused for being below the minimum size, and the text starts with 'apparently'
\* for a complete size and 'at least' otherwise
C12_NetworkDownload ==
    (call.op = "CheckNetworkDownload") =>
        /\ (result[1] # NoNote) <=> (OverGifCap(call) \/ OverMaxSize(call) \/ UnderMinSize(call))
        /\ OverGifCap(call) =>
              result[1] = << Prefix(call), << call.num_bytes >>,
                             "but the upper limit for gifs is", call.fio.max_gif_size >>
        /\ (~ OverGifCap(call) /\ OverMaxSize(call)) =>
              result[1] = << Prefix(call), << call.num_bytes >>,
                             "but the upper limit is", call.fio.max_size >>
        /\ (~ OverGifCap(call) /\ ~ OverMaxSize(call) /\ UnderMinSize(call)) =>
              result[1] = << Prefix(call), << call.num_bytes >>,
                             "but the lower limit is", call.fio.min_size >>
        /\ (~ call.is_complete_file_size /\ result[1] # NoNote) =>
              result[1][3] # "but the lower limit is"

\* a download that is not complete and below the minimum size was let through
C12_Witness ==
    /\ call.op = "CheckNetworkDownload"
    /\ ~ call.is_complete_file_size
    /\ call.fio.min_size # NoInt
    /\ call.num_bytes < call.fio.min_size[1]
    /\ result[1] = NoNote

(***************************************************************************)
(* The migration of persisted options: a tuple of any version 1..5, given  *)
(* to one step of _UpdateSerialisableInfo or to the load.                  *)
(***************************************************************************)
\* the limits a persisted tuple may hold
PersistedSizes == { NoInt, Some(0), Some(MaxSize) }
PersistedResolutions == { NoInt, << 1, MaxDim >> }

\* the tuple of a version, of the values of the fifteen options (a version holds
\* only the options it knows)
InfoOfVersion(version, fio) ==
    LET presentation_options == << fio.present_new_files, fio.present_already_in_inbox_files,
                                   fio.present_already_in_archive_files >>
    IN  CASE version = 1 ->
               << fio.automatic_archive, fio.exclude_deleted, fio.min_size, fio.min_resolution >>
          [] version = 2 ->
               << fio.automatic_archive, fio.exclude_deleted, fio.present_new_files,
                  fio.present_already_in_inbox_files, fio.present_already_in_archive_files,
                  fio.min_size, fio.min_resolution >>
          [] version = 3 ->
               << << fio.exclude_deleted, fio.allow_decompression_bombs, fio.min_size,
                     fio.max_size, fio.max_gif_size, fio.min_resolution, fio.max_resolution >>,
                  fio.automatic_archive,
                  presentation_options >>
          [] version = 4 ->
               << << fio.exclude_deleted, fio.do_not_check_known_urls_before_importing,
                     fio.do_not_check_hashes_before_importing, fio.allow_decompression_bombs,
                     fio.min_size, fio.max_size, fio.max_gif_size, fio.min_resolution,
                     fio.max_resolution >>,
                  << fio.automatic_archive, fio.associate_source_urls >>,
                  presentation_options >>
          [] version = 5 -> GetSerialisableInfo(fio)

\* a persisted instance: any version, any values
InitMigrate ==
    /\ db = << >>
    /\ client_files = { }
    /\ job = << >>
    /\ runs = 0
    /\ drift = 0
    /\ imported = << >>
    /\ \E version \in 1..SERIALISABLE_VERSION :
       \E exclude_deleted \in BOOLEAN, do_not_check_known_urls_before_importing \in BOOLEAN,
          do_not_check_hashes_before_importing \in BOOLEAN,
          allow_decompression_bombs \in BOOLEAN :
       \E min_size \in PersistedSizes, max_size \in PersistedSizes,
          max_gif_size \in PersistedSizes,
          min_resolution \in PersistedResolutions, max_resolution \in PersistedResolutions :
       \E automatic_archive \in BOOLEAN, associate_primary_urls \in BOOLEAN,
          associate_source_urls \in BOOLEAN :
       \E present_new_files \in BOOLEAN, present_already_in_inbox_files \in BOOLEAN,
          present_already_in_archive_files \in BOOLEAN :
          call = [ op |-> "none",
                   version |-> version,
                   info |-> InfoOfVersion(version,
                       [ exclude_deleted |-> exclude_deleted,
                         do_not_check_known_urls_before_importing |-> do_not_check_known_urls_before_importing,
                         do_not_check_hashes_before_importing |-> do_not_check_hashes_before_importing,
                         allow_decompression_bombs |-> allow_decompression_bombs,
                         min_size |-> min_size, max_size |-> max_size,
                         max_gif_size |-> max_gif_size,
                         min_resolution |-> min_resolution,
                         max_resolution |-> max_resolution,
                         automatic_archive |-> automatic_archive,
                         associate_primary_urls |-> associate_primary_urls,
                         associate_source_urls |-> associate_source_urls,
                         present_new_files |-> present_new_files,
                         present_already_in_inbox_files |-> present_already_in_inbox_files,
                         present_already_in_archive_files |-> present_already_in_archive_files ]) ]
    /\ result = << >>

\* one step of the migration, called on the persisted tuple
CallUpdateSerialisableInfo ==
    /\ call.op = "none"
    /\ call' = [ call EXCEPT !.op = "UpdateSerialisableInfo" ]
    /\ result' = << UpdateSerialisableInfo(call.version, call.info) >>
    /\ UNCHANGED << db, client_files, job, runs, drift, imported >>

\* the load of the persisted tuple
CallLoadSerialisableInfo ==
    /\ call.op = "none"
    /\ call' = [ call EXCEPT !.op = "LoadSerialisableInfo" ]
    /\ result' = << LoadSerialisableInfo(call.version, call.info) >>
    /\ UNCHANGED << db, client_files, job, runs, drift, imported >>

NextMigrate ==
    \/ CallUpdateSerialisableInfo
    \/ CallLoadSerialisableInfo

SpecMigrate == InitMigrate /\ [][NextMigrate]_vars

\* C13: a version-1 tuple (autoArchive, excludeDeleted, minSize, minResolution),
\* migrated up to version 5, gives options with the same four values, that allow
\* decompression bombs, cap gifs at 32 * 1048576, have no maximum size and no maximum
\* resolution, check known urls and hashes, associate primary and source urls, and
\* present new files but not those already in the inbox or the archive
C13_MigrateFromVersion1 ==
    (call.op = "LoadSerialisableInfo" /\ call.version = 1) =>
        result[1].options =
            [ automatic_archive |-> call.info[1],
              exclude_deleted |-> call.info[2],
              min_size |-> call.info[3],
              min_resolution |-> call.info[4],
              allow_decompression_bombs |-> TRUE,
              max_gif_size |-> << 32 * 1048576 >>,
              max_size |-> << >>,
              max_resolution |-> << >>,
              do_not_check_known_urls_before_importing |-> FALSE,
              do_not_check_hashes_before_importing |-> FALSE,
              associate_primary_urls |-> TRUE,
              associate_source_urls |-> TRUE,
              present_new_files |-> TRUE,
              present_already_in_inbox_files |-> FALSE,
              present_already_in_archive_files |-> FALSE ]

\* a version-1 tuple that archives, imports deleted files again and has both lower
\* limits was loaded in four steps
C13_Witness ==
    /\ call.op = "LoadSerialisableInfo"
    /\ call.version = 1
    /\ call.info = << TRUE, FALSE, << MaxSize >>, << 1, MaxDim >> >>
    /\ result[1].steps = 4
    /\ result[1].options.automatic_archive
    /\ ~ result[1].options.exclude_deleted
    /\ result[1].options.min_size = << MaxSize >>
    /\ result[1].options.min_resolution = << 1, MaxDim >>

\* C14, as stated: the migration step, run on an instance that is already at version
\* 5, returns version 5 with the serialisable info unchanged
C14_StepAtCurrentVersionReturnsSame ==
    (call.op = "UpdateSerialisableInfo" /\ call.version = 5) =>
        result[1] = << 5, call.info >>

\* C14, amended: migrating an instance that is already at version 5 is a no-op, in
\* that the load takes no step of _UpdateSerialisableInfo and initialises the
\* options from the serialisable info unchanged; the step itself has no branch for
\* version 5 and, called there, returns nothing
C14_LoadAtCurrentVersionIsNoOp ==
    /\ (call.op = "LoadSerialisableInfo" /\ call.version = 5) =>
          /\ result[1].steps = 0
          /\ result[1].info = call.info
          /\ GetSerialisableInfo(result[1].options) = call.info
    /\ (call.op = "UpdateSerialisableInfo" /\ call.version = 5) =>
          result[1] = << >>

\* a version-5 tuple whose two url options differ was loaded
C14_Witness ==
    /\ call.op = "LoadSerialisableInfo"
    /\ call.version = 5
    /\ call.info[2] = << TRUE, TRUE, FALSE >>
    /\ result[1].steps = 0
    /\ result[1].options.associate_primary_urls
    /\ ~ result[1].options.associate_source_urls

\* where each version keeps each of its fields: a place in the tuple, or a place in
\* one of its three tuples
PresentationPlaces(first) ==
    [ present_new_files |-> << first >>,
      present_already_in_inbox_files |-> << first + 1 >>,
      present_already_in_archive_files |-> << first + 2 >> ]
Layout(version) ==
    CASE version = 1 ->
           [ automatic_archive |-> << 1 >>, exclude_deleted |-> << 2 >>,
             min_size |-> << 3 >>, min_resolution |-> << 4 >> ]
      [] version = 2 ->
           [ automatic_archive |-> << 1 >>, exclude_deleted |-> << 2 >>,
             present_new_files |-> << 3 >>, present_already_in_inbox_files |-> << 4 >>,
             present_already_in_archive_files |-> << 5 >>,
             min_size |-> << 6 >>, min_resolution |-> << 7 >> ]
      [] version = 3 ->
           [ exclude_deleted |-> << 1, 1 >>, allow_decompression_bombs |-> << 1, 2 >>,
             min_size |-> << 1, 3 >>, max_size |-> << 1, 4 >>, max_gif_size |-> << 1, 5 >>,
             min_resolution |-> << 1, 6 >>, max_resolution |-> << 1, 7 >>,
             automatic_archive |-> << 2 >>,
             present_new_files |-> << 3, 1 >>, present_already_in_inbox_files |-> << 3, 2 >>,
             present_already_in_archive_files |-> << 3, 3 >> ]
      [] version = 4 ->
           [ exclude_deleted |-> << 1, 1 >>,
             do_not_check_known_urls_before_importing |-> << 1, 2 >>,
             do_not_check_hashes_before_importing |-> << 1, 3 >>,
             allow_decompression_bombs |-> << 1, 4 >>,
             min_size |-> << 1, 5 >>, max_size |-> << 1, 6 >>, max_gif_size |-> << 1, 7 >>,
             min_resolution |-> << 1, 8 >>, max_resolution |-> << 1, 9 >>,
             automatic_archive |-> << 2, 1 >>, associate_source_urls |-> << 2, 2 >>,
             present_new_files |-> << 3, 1 >>, present_already_in_inbox_files |-> << 3, 2 >>,
             present_already_in_archive_files |-> << 3, 3 >> ]
      [] version = 5 ->
           [ exclude_deleted |-> << 1, 1 >>,
             do_not_check_known_urls_before_importing |-> << 1, 2 >>,
             do_not_check_hashes_before_importing |-> << 1, 3 >>,
             allow_decompression_bombs |-> << 1, 4 >>,
             min_size |-> << 1, 5 >>, max_size |-> << 1, 6 >>, max_gif_size |-> << 1, 7 >>,
             min_resolution |-> << 1, 8 >>, max_resolution |-> << 1, 9 >>,
             automatic_archive |-> << 2, 1 >>, associate_primary_urls |-> << 2, 2 >>,
             associate_source_urls |-> << 2, 3 >>,
             present_new_files |-> << 3, 1 >>, present_already_in_inbox_files |-> << 3, 2 >>,
             present_already_in_archive_files |-> << 3, 3 >> ]
FieldsOf(version) == DOMAIN Layout(version)
At(info, place) == IF Len(place) = 1 THEN info[place[1]] ELSE info[place[1]][place[2]]

\* the sizes of the tuple of a version
Shape(version, info) ==
    CASE version = 2 -> Len(info) = 7
      [] version = 3 -> Len(info) = 3 /\ Len(info[1]) = 7 /\ Len(info[3]) = 3
      [] version = 4 -> Len(info) = 3 /\ Len(info[1]) = 9 /\ Len(info[2]) = 2 /\ Len(info[3]) = 3
      [] version = 5 -> Len(info) = 3 /\ Len(info[1]) = 9 /\ Len(info[2]) = 3 /\ Len(info[3]) = 3

\* the default a field is given by the step that adds it
HasStatedDefault(name, value) ==
    CASE name = "present_new_files" -> value = TRUE
      [] name = "present_already_in_inbox_files" -> value = FALSE
      [] name = "present_already_in_archive_files" -> value = FALSE
      [] name = "allow_decompression_bombs" -> value = TRUE
      [] name = "max_gif_size" -> value = << 32 * 1048576 >>
      [] name = "max_size" -> value = << >>
      [] name = "max_resolution" -> value = << >>
      [] name = "do_not_check_known_urls_before_importing" -> value = FALSE
      [] name = "do_not_check_hashes_before_importing" -> value = FALSE
      [] name = "associate_source_urls" -> value = TRUE
      [] name = "associate_primary_urls" -> value = TRUE

\* C15: one call of _UpdateSerialisableInfo on a tuple of a version 1..4 returns the
\* next version and a tuple of that version in which every field the old version had
\* keeps its value and every field the new version adds holds its stated default
C15_StepOnlyAddsDefaults ==
    (call.op = "UpdateSerialisableInfo" /\ call.version \in 1..4) =>
        LET new_version == result[1][1]
            new_info == result[1][2]
        IN  /\ new_version = call.version + 1
            /\ Shape(new_version, new_info)
            /\ \A name \in FieldsOf(call.version) :
                  At(new_info, Layout(new_version)[name]) = At(call.info, Layout(call.version)[name])
            /\ \A name \in FieldsOf(new_version) \ FieldsOf(call.version) :
                  HasStatedDefault(name, At(new_info, Layout(new_version)[name]))

\* a version-3 tuple with every limit set, which tests for bombs and archives, was
\* taken to version 4
C15_Witness ==
    /\ call.op = "UpdateSerialisableInfo"
    /\ call.version = 3
    /\ call.info[1] = << TRUE, FALSE, << 0 >>, << MaxSize >>, << MaxSize >>,
                         << 1, MaxDim >>, << 1, MaxDim >> >>
    /\ call.info[2] = TRUE
    /\ result[1][1] = 4
    /\ result[1][2][1][5] = << 0 >>
    /\ result[1][2][1][6] = << MaxSize >>

\* C16, as stated: after a run, returned or aborted, the temp file holds the bytes it
\* was given with
C16_TempFileUnchanged ==
    \A j \in Jobs :
        (job[j].pc \in { "returned", "raised" }) => job[j].temp_file = job[j].given_file

\* C16, amended: no step of a run deletes the temp file, and the only step that
\* changes its contents is the first of GeneratePreImportHashAndStatus, which
\* rewrites a BMP in place as a PNG; a file that was not given as a BMP holds after
\* the run the bytes it was given with, and no file changes once it has been hashed
C16_OnlyBmpConverted ==
    /\ [](\A j \in Jobs :
            (job[j].pc # "idle" /\ job[j].temp_file # job[j].given_file) =>
                /\ GetMime(job[j].given_file) = IMAGE_BMP
                /\ job[j].temp_file \in Files
                /\ GetMime(job[j].temp_file) = IMAGE_PNG
                /\ job[j].pc # "constructed")
    /\ [][\A j \in Jobs :
            (job[j].pc \notin { "idle", "constructed", "returned", "raised" }) =>
                job'[j].temp_file = job[j].temp_file]_vars

\* a BMP was imported as the PNG made of it, and a PDF was imported as it was given
C16_Witness ==
    \E j \in Jobs, k \in Jobs :
        /\ job[j].pc = "returned" /\ job[k].pc = "returned"
        /\ job[j].given_file = "bmpA" /\ job[j].temp_file = "pngA"
        /\ Called(job[j], "AddFile")
        /\ job[k].given_file = "pdfD" /\ job[k].temp_file = "pdfD"
        /\ Called(job[k], "AddFile")

(***************************************************************************)
(* DoWork with and without a status_hook: two runs of the same file and    *)
(* options, each on its own copy of the same database and store, taken     *)
(* step by step side by side.                                              *)
(***************************************************************************)
\* a run and what it works on
World(jb, rows, files) == [ jb |-> jb, db |-> rows, files |-> files ]

\* the step of DoWork the run stands at, on the run's own database and store;
\* carried is the hash the looked-up status comes with
StepWorld(w, carried) ==
    LET jb == w.jb
    IN  CASE jb.pc = "constructed" -> [ w EXCEPT !.jb = GenerateHash(jb) ]
          [] jb.pc = "hashed" ->
               [ w EXCEPT !.jb = SetPreImportStatus(jb, HashStatus(w.db, jb.hash, carried)) ]
          [] jb.pc = "looked_up" -> [ w EXCEPT !.jb = Reconcile(jb, w.files) ]
          [] jb.pc = "reconciled" -> [ w EXCEPT !.jb = Decide(jb) ]
          [] jb.pc = "generate_info" -> [ w EXCEPT !.jb = GenerateInfo(jb) ]
          [] jb.pc = "check" -> [ w EXCEPT !.jb = CheckIsGoodToImport(jb) ]
          [] jb.pc = "add_file" ->
               [ w EXCEPT !.files = AddFile(w.files, jb.pre_import_file_status.hash,
                                            jb.pre_import_file_status.mime, jb.temp_file),
                          !.jb = CopyIntoStorage(jb) ]
          [] jb.pc = "import_file" ->
               [ w EXCEPT !.db = ImportFileRows(w.db, GetHash(jb), JobGetMime(jb)),
                          !.jb = ImportResult(jb, ImportFileStatus(w.db, GetHash(jb), JobGetMime(jb))) ]
          [] jb.pc = "publish" -> [ w EXCEPT !.jb = Publish(jb) ]
          [] OTHER -> w

\* what the database may hold for a hash
Rows == { NoRow, [ state |-> "deleted", mime |-> None ] }
            \cup { [ state |-> "current", mime |-> mime ] : mime \in Mimes }

\* the options a version-1 tuple of defaults is loaded as
MigratedOptions == { LoadSerialisableInfo(1, << FALSE, TRUE, NoInt, NoInt >>).options }

\* DoWork is called twice, with a status_hook and without one, on the same file and
\* options, the same database and the same store
InitHook ==
    /\ db = << >>
    /\ client_files = { }
    /\ job = << >>
    /\ runs = 0
    /\ drift = 0
    /\ imported = << >>
    /\ \E bytes \in Files, fio \in JobOptions \cup MigratedOptions, row \in Rows, files \in Stores :
       \E carried \in Hashes \cup { None } :
          LET rows == [ h \in HashValues |->
                          IF h = GetHashFromPath(ConvertToPNGIfBMP(bytes)) THEN row ELSE NoRow ]
          IN  /\ call = [ op |-> "DoWork", carried |-> carried ]
              /\ result = << World([ NewJob(bytes, fio) EXCEPT !.status_hook = TRUE ], rows, files),
                             World(NewJob(bytes, fio), rows, files) >>

\* both runs take their next step
StepBoth ==
    /\ call.op = "DoWork"
    /\ \E i \in 1..2 : result[i].jb.pc \notin { "returned", "raised" }
    /\ result' = << StepWorld(result[1], call.carried), StepWorld(result[2], call.carried) >>
    /\ UNCHANGED << db, client_files, job, runs, drift, imported, call >>

NextHook ==
    \/ StepBoth

SpecHook == InitHook /\ [][NextHook]_vars

\* C17: a run with a status_hook and a run without one, of the same file and options
\* on the same lookup result and store, stand at the same step after every step, have
\* made the same calls of the store and the ports, hold the same statuses, and end
\* with the same returned status or the same fatal error, leaving the same database
\* and store
C17_HookIsObservational ==
    (call.op = "DoWork") =>
        LET with == result[1].jb
            without == result[2].jb
        IN  /\ with.pc = without.pc
            /\ with.calls = without.calls
            /\ with.pre_import_file_status = without.pre_import_file_status
            /\ with.post_import_file_status = without.post_import_file_status
            /\ with.returned = without.returned
            /\ with.error = without.error
            /\ with.content_updates = without.content_updates
            /\ with.temp_file = without.temp_file
            /\ result[1].db = result[2].db
            /\ result[1].files = result[2].files
            /\ without.hooked = << >>

\* both runs imported a file; the hook was told of every step of the import
C17_Witness ==
    /\ call.op = "DoWork"
    /\ result[1].jb.pc = "returned"
    /\ result[2].jb.pc = "returned"
    /\ result[1].jb.returned[1].status = STATUS_SUCCESSFUL_AND_NEW
    /\ Called(result[2].jb, "import_file")
    /\ result[1].jb.hooked = << "calculating hash", "checking for file status",
                                "generating filetype", "generating file metadata",
                                "generating thumbnail", "generating similar files metadata",
                                "generating additional hashes",
                                "copying file into file storage", "importing to database" >>

(***************************************************************************)
(* GetSummary, called on options of every kind.                            *)
(***************************************************************************)
InitSummary ==
    /\ db = << >>
    /\ client_files = { }
    /\ job = << >>
    /\ runs = 0
    /\ drift = 0
    /\ imported = << >>
    /\ \E exclude_deleted \in BOOLEAN, allow_decompression_bombs \in BOOLEAN,
          automatic_archive \in BOOLEAN :
       \E min_size \in PersistedSizes, max_size \in PersistedSizes,
          max_gif_size \in PersistedSizes,
          min_resolution \in PersistedResolutions, max_resolution \in PersistedResolutions :
       \E present_new_files \in BOOLEAN, present_already_in_inbox_files \in BOOLEAN,
          present_already_in_archive_files \in BOOLEAN :
          call = [ op |-> "none",
                   fio |-> [ WithLimits(min_size, max_size, max_gif_size,
                                        min_resolution, max_resolution)
                               EXCEPT !.exclude_deleted = exclude_deleted,
                                      !.allow_decompression_bombs = allow_decompression_bombs,
                                      !.automatic_archive = automatic_archive,
                                      !.present_new_files = present_new_files,
                                      !.present_already_in_inbox_files = present_already_in_inbox_files,
                                      !.present_already_in_archive_files = present_already_in_archive_files ] ]
    /\ result = << >>

CallGetSummary ==
    /\ call.op = "none"
    /\ call' = [ call EXCEPT !.op = "GetSummary" ]
    /\ result' = << GetSummary(call.fio) >>
    /\ UNCHANGED << db, client_files, job, runs, drift, imported >>

NextSummary ==
    \/ CallGetSummary

SpecSummary == InitSummary /\ [][NextSummary]_vars

\* the place of a statement in the fixed order, by how it starts
PlaceOf(statement) ==
    CASE statement[1] = "excluding previously deleted" -> 1
      [] statement[1] = "excluding decompression bombs" -> 2
      [] statement[1] = "excluding <" -> 3
      [] statement[1] = "excluding >" -> 4
      [] statement[1] = "excluding gifs >" -> 5
      [] statement[1] = "excluding < (" -> 6
      [] statement[1] = "excluding > (" -> 7
      [] statement[1] = "automatically archiving" -> 8
      [] OTHER -> 9
\* whether the options set what the statement of a place is about
IsSet(fio, place) ==
    CASE place = 1 -> fio.exclude_deleted
      [] place = 2 -> ~ fio.allow_decompression_bombs
      [] place = 3 -> fio.min_size # NoInt
      [] place = 4 -> fio.max_size # NoInt
      [] place = 5 -> fio.max_gif_size # NoInt
      [] place = 6 -> fio.min_resolution # NoInt
      [] place = 7 -> fio.max_resolution # NoInt
      [] place = 8 -> fio.automatic_archive
\* the presentation flags that are set, in the order new, inbox, archive
Presented(fio) ==
    (IF fio.present_new_files THEN << "new" >> ELSE << >>)
    \o (IF fio.present_already_in_inbox_files THEN << "already in inbox" >> ELSE << >>)
    \o (IF fio.present_already_in_archive_files THEN << "already in archive" >> ELSE << >>)

\* C18: GetSummary's statements come in the order exclude-deleted, exclude-bombs,
\* min-size, max-size, gif cap, min-resolution, max-resolution, auto-archive,
\* presentation, each there exactly when its option is set; the last and only
\* presentation statement is 'not presenting any' when no flag is set, 'presenting
\* all' when all three are, and otherwise 'presenting' with the set ones in the order
\* new, already in inbox, already in archive
C18_SummaryOrder ==
    (call.op = "GetSummary") =>
        LET statements == result[1]
            last == statements[Len(statements)]
            flags == Presented(call.fio)
        IN  /\ Len(statements) >= 1
            /\ \A i \in 1..(Len(statements) - 1) :
                  PlaceOf(statements[i]) < PlaceOf(statements[i + 1])
            /\ \A place \in 1..8 :
                  IsSet(call.fio, place) <=>
                      (\E i \in 1..Len(statements) : PlaceOf(statements[i]) = place)
            /\ PlaceOf(last) = 9
            /\ (Len(flags) = 0) => last = << "not presenting any files" >>
            /\ (Len(flags) = 3) => last = << "presenting all files" >>
            /\ (Len(flags) \in { 1, 2 }) => last = << "presenting", flags, "files" >>

\* options with every statement to make, presenting new files and those in the archive
C18_Witness ==
    /\ call.op = "GetSummary"
    /\ Len(result[1]) = 9
    /\ result[1][9] = << "presenting", << "new", "already in archive" >>, "files" >>

\* C19: CheckFileImportStatus returns the status it was given, with the same code,
\* hash, mime and note, unless the status is already in the db, has a hash and a
\* mime, and the store has no file under them; and the call writes neither the store
\* nor the database
C19_OtherwiseUnchanged ==
    /\ [](( /\ call.op = "CheckFileImportStatus"
            /\ ~ ( /\ call.fis.status = STATUS_SUCCESSFUL_BUT_REDUNDANT
                   /\ call.fis.hash # None
                   /\ call.fis.mime # None
                   /\ FileMissing(client_files, call.fis.hash, call.fis.mime) ) ) =>
              /\ result[1].status = call.fis.status
              /\ result[1].hash = call.fis.hash
              /\ result[1].mime = call.fis.mime
              /\ result[1].note = call.fis.note)
    /\ [][(call'.op = "CheckFileImportStatus") =>
              (client_files' = client_files /\ db' = db)]_vars

\* a deleted status with a note, whose file the store does not hold, was returned as it
\* was
C19_Witness ==
    /\ call.op = "CheckFileImportStatus"
    /\ call.fis.status = STATUS_DELETED
    /\ call.fis.hash = "h_pngA"
    /\ call.fis.mime = IMAGE_PNG
    /\ call.fis.note # NoNote
    /\ FileMissing(client_files, "h_pngA", IMAGE_PNG)
    /\ result[1] = call.fis

\* the statuses a job holds or has returned
StatusesOf(jb) ==
    { jb.pre_import_file_status, jb.post_import_file_status }
        \cup { jb.returned[i] : i \in 1..Len(jb.returned) }

\* C20: in every state of a job, a status the job holds or has returned, pre-import
\* or post-import, that is already in the db has a hash and a mime
C20_AlreadyInDBHasHashAndMime ==
    \A j \in Jobs :
        (job[j].pc # "idle") =>
            \A fis \in StatusesOf(job[j]) :
                (fis.status = STATUS_SUCCESSFUL_BUT_REDUNDANT) =>
                    (fis.hash # None /\ fis.mime # None)

\* a status that the database returned with no hash was given the computed hash, held
\* as already in the db, copied and returned
C20_Witness ==
    \E j \in Jobs :
        /\ job[j].pc = "returned"
        /\ job[j].looked_up[1].status = STATUS_SUCCESSFUL_BUT_REDUNDANT
        /\ job[j].looked_up[1].hash = None
        /\ job[j].pre_import_file_status.status = STATUS_SUCCESSFUL_BUT_REDUNDANT
        /\ job[j].returned[1].status = STATUS_SUCCESSFUL_BUT_REDUNDANT
        /\ job[j].returned[1].hash = job[j].hash
        /\ job[j].returned[1].mime # None

\* the calls of a run in the order the claim gives the steps: the hash, the lookup,
\* the probe of the reconciliation, the calls of the metadata extraction, the check,
\* the copy into the store, the import, the content update
StepOrder ==
    << "GetHashFromPath", "hash_status", "GetFilePath", "GetMime", "IsDecompressionBomb",
       "GetFileInfo", "GenerateThumbnailBytes", "GenerateShapePerceptualHashes",
       "GetExtraHashesFromPath", "CheckFileIsValid", "AddFile", "import_file",
       "content_updates" >>
PlaceInOrder(name) == CHOOSE i \in 1..Len(StepOrder) : StepOrder[i] = name
\* the steps a run may take from where it stands
Forward ==
    { << "constructed", "hashed" >>, << "hashed", "looked_up" >>,
      << "looked_up", "reconciled" >>,
      << "reconciled", "generate_info" >>, << "reconciled", "publish" >>,
      << "generate_info", "check" >>, << "generate_info", "raised" >>,
      << "check", "add_file" >>, << "check", "publish" >>,
      << "add_file", "import_file" >>, << "import_file", "publish" >>,
      << "publish", "returned" >> }

\* C21: a run takes its steps in one forward order and none twice: the hash, the
\* lookup, the reconciliation, the decision on ShouldImport, then on the import path
\* the metadata extraction, CheckIsGoodToImport and, only if that passed, AddFile
\* followed by 'import_file'; PubsubContentUpdates comes after all of these and
\* right before the status is returned
C21_ForwardOrder ==
    /\ [](\A j \in Jobs :
            (job[j].pc # "idle") =>
                /\ \A i \in 1..(Len(job[j].calls) - 1) :
                      PlaceInOrder(job[j].calls[i]) < PlaceInOrder(job[j].calls[i + 1])
                /\ Called(job[j], "AddFile") =>
                      (job[j].ok_to_go = << TRUE >> /\ Violation(job[j]) = NoNote)
                /\ Called(job[j], "import_file") => Called(job[j], "AddFile")
                /\ Called(job[j], "content_updates") => job[j].pc = "returned")
    /\ [][\A j \in Jobs :
            (job[j].pc \notin { "idle", "returned", "raised" } /\ job'[j].pc # job[j].pc) =>
                << job[j].pc, job'[j].pc >> \in Forward]_vars

\* a run took every step of the import path that a png calls for, and returned
C21_Witness ==
    \E j \in Jobs :
        /\ job[j].pc = "returned"
        /\ job[j].calls = << "GetHashFromPath", "hash_status", "GetMime", "GetFileInfo",
                             "GenerateThumbnailBytes", "GenerateShapePerceptualHashes",
                             "GetExtraHashesFromPath", "CheckFileIsValid", "AddFile",
                             "import_file" >>

\* the run holds a vetoed status as its result
EndsVetoed(jb) ==
    jb.pc \in { "publish", "returned" } /\ jb.post_import_file_status.status = STATUS_VETOED

\* C22, as stated: a run that ends with a vetoed status has made no thumbnail, no
\* perceptual hashes and no other hashes
C22_VetoBeforeExtraction ==
    \A j \in Jobs :
        EndsVetoed(job[j]) =>
            /\ ~ Called(job[j], "GenerateThumbnailBytes")
            /\ ~ Called(job[j], "GenerateShapePerceptualHashes")
            /\ ~ Called(job[j], "GetExtraHashesFromPath")
            /\ job[j].thumbnail_bytes = << >>
            /\ job[j].phashes = << >>
            /\ job[j].extra_hashes = << >>

\* C22, amended: the veto is taken at CheckIsGoodToImport, after the metadata
\* extraction: a run that ends with a vetoed status has been through the whole of
\* GenerateInfo before the check (the file info, the thumbnail and the perceptual
\* hashes where the mime has them, the other hashes and the timestamp), and has not
\* committed: it called neither AddFile nor 'import_file'
C22_VetoAfterExtraction ==
    \A j \in Jobs :
        EndsVetoed(job[j]) =>
            /\ job[j].file_info # << >>
            /\ CalledBefore(job[j], "GetFileInfo", "CheckFileIsValid")
            /\ (job[j].file_info[1].mime \in MIMES_WITH_THUMBNAILS) =>
                  /\ job[j].thumbnail_bytes # << >>
                  /\ CalledBefore(job[j], "GenerateThumbnailBytes", "CheckFileIsValid")
            /\ (job[j].file_info[1].mime \in MIMES_WE_CAN_PHASH) =>
                  /\ job[j].phashes # << >>
                  /\ CalledBefore(job[j], "GenerateShapePerceptualHashes", "CheckFileIsValid")
            /\ job[j].extra_hashes # << >>
            /\ job[j].file_modified_timestamp # << >>
            /\ CalledBefore(job[j], "GetExtraHashesFromPath", "CheckFileIsValid")
            /\ ~ Called(job[j], "AddFile")
            /\ ~ Called(job[j], "import_file")

\* a png was vetoed for its size after its thumbnail and its perceptual hashes were made
C22_Witness ==
    \E j \in Jobs :
        /\ job[j].pc = "returned"
        /\ job[j].returned[1].status = STATUS_VETOED
        /\ job[j].file_info[1].mime = IMAGE_PNG
        /\ job[j].thumbnail_bytes # << >>
        /\ job[j].phashes # << >>
        /\ job[j].extra_hashes # << >>

\* C23: a run whose file passed CheckIsGoodToImport calls AddFile once and then
\* 'import_file' once, and the status it returns is the one 'import_file' returned,
\* whatever its code, not one made from the pre-import status
C23_ReturnsWhatImportFileReturned ==
    \A j \in Jobs :
        /\ (job[j].pc = "import_file") =>
              /\ TimesCalled(job[j], "AddFile") = 1
              /\ TimesCalled(job[j], "import_file") = 0
        /\ (job[j].pc \in { "publish", "returned" } /\ job[j].ok_to_go = << TRUE >>) =>
              /\ TimesCalled(job[j], "AddFile") = 1
              /\ TimesCalled(job[j], "import_file") = 1
              /\ CalledBefore(job[j], "AddFile", "import_file")
              /\ job[j].written # << >>
              /\ job[j].post_import_file_status = job[j].written[1]
              /\ (job[j].pc = "returned") => job[j].returned = job[j].written

\* a run that looked its file up as unknown returned what 'import_file' told it: that
\* the database had the file by then
C23_Witness ==
    \E j \in Jobs :
        /\ job[j].pc = "returned"
        /\ job[j].ok_to_go = << TRUE >>
        /\ job[j].pre_import_file_status.status = STATUS_UNKNOWN
        /\ job[j].written[1].status = STATUS_SUCCESSFUL_BUT_REDUNDANT
        /\ job[j].returned[1].status = STATUS_SUCCESSFUL_BUT_REDUNDANT
        /\ job[j].returned[1].note # NoNote

\* the two runs of DoWork taken side by side, each a job
SideBySide == { result[i].jb : i \in 1..Len(result) }

\* C24: once GeneratePreImportHashAndStatus has looked the file up, the pre-import
\* status has the hash the job computed from the file, whatever hash the lookup's
\* result came with (none, the same, another), and keeps it through the
\* reconciliation and to the end; so GetHash gives the computed hash, and so does
\* every returned status that was short-circuited or vetoed
C24_HashForced ==
    (call.op = "DoWork") =>
        \A jb \in SideBySide :
            /\ (jb.pc \notin { "constructed", "hashed" }) =>
                  /\ jb.pre_import_file_status.hash = GetHashFromPath(jb.temp_file)
                  /\ jb.pre_import_file_status.hash = jb.hash
                  /\ GetHash(jb) = jb.hash
            /\ (jb.pc = "returned" /\ jb.ok_to_go # << TRUE >>) =>
                  jb.returned[1].hash = jb.hash

\* a status that came from the lookup as already in the db under another hash was
\* short-circuited and returned with the computed hash
C24_Witness ==
    /\ call.op = "DoWork"
    /\ call.carried \notin { None, result[2].jb.hash }
    /\ result[2].jb.pc = "returned"
    /\ result[2].jb.looked_up[1].status = STATUS_SUCCESSFUL_BUT_REDUNDANT
    /\ result[2].jb.looked_up[1].hash = call.carried
    /\ result[2].jb.ok_to_go = << >>
    /\ result[2].jb.returned[1].status = STATUS_SUCCESSFUL_BUT_REDUNDANT
    /\ result[2].jb.returned[1].hash = result[2].jb.hash

(***************************************************************************)
(* The status objects of a job.  A FileImportStatus is an object, and the  *)
(* job's two fields are references to objects; objs is the objects made so *)
(* far, a reference is a place in it.  DoWork is taken from the decision   *)
(* on, step by step, and then the caller, which holds the job and the      *)
(* returned status, assigns to a field of one of the two.                  *)
(***************************************************************************)
\* a slip in Duplicate: the status itself is returned, no new object is made
DuplicateObjectShares(objs, ref) == [ objs |-> objs, ref |-> ref ]

\* FileImportStatus.Duplicate, on objects: a new object with the fields of the one
\* referred to, and the reference to it
DuplicateObject(objs, ref) ==
    [ objs |-> Append(objs, Duplicate(objs[ref])), ref |-> Len(objs) + 1 ]

\* the step DoWork stands at, with what it does to the objects; r.w is the run, r.pre
\* and r.post are self._pre_import_file_status and self._post_import_file_status
StepObjects(r) ==
    LET jb == r.w.jb
        stepped == [ r EXCEPT !.w = StepWorld(r.w, None) ]
    IN  CASE jb.pc = "reconciled" ->
               IF ShouldImport(r.objs[r.pre], jb.file_import_options)
               THEN stepped
               ELSE LET copy == DuplicateObject(r.objs, r.pre)
                    IN  [ stepped EXCEPT !.objs = copy.objs, !.post = copy.ref ]
          [] jb.pc = "generate_info" ->
               [ stepped EXCEPT !.objs[r.pre].mime = stepped.w.jb.pre_import_file_status.mime ]
          [] jb.pc = "check" ->
               IF stepped.w.jb.ok_to_go = << FALSE >>
               THEN LET not_ok_file_import_status == DuplicateObject(r.objs, r.pre)
                        e == stepped.w.jb.post_import_file_status.note
                    IN  [ stepped EXCEPT
                            !.objs = [ not_ok_file_import_status.objs
                                         EXCEPT ![not_ok_file_import_status.ref].status = STATUS_VETOED,
                                                ![not_ok_file_import_status.ref].note = e ],
                            !.post = not_ok_file_import_status.ref,
                            !.at_veto = << r.objs[r.pre] >> ]
               ELSE stepped
          [] jb.pc = "import_file" ->
               [ stepped EXCEPT !.objs = Append(r.objs, stepped.w.jb.post_import_file_status),
                                !.post = Len(r.objs) + 1 ]
          [] OTHER -> stepped

\* the job after GeneratePreImportHashAndStatus, of any file and options on any
\* database row and store: the pre-import status is the object the lookup gave, the
\* post-import status the object the constructor made
InitObjects ==
    /\ db = << >>
    /\ client_files = { }
    /\ job = << >>
    /\ runs = 0
    /\ drift = 0
    /\ imported = << >>
    /\ call = [ op |-> "Objects" ]
    /\ \E bytes \in Files, fio \in JobOptions, row \in Rows, files \in Stores :
       \E carried \in Hashes \cup { None } :
          LET rows == [ h \in HashValues |->
                          IF h = GetHashFromPath(ConvertToPNGIfBMP(bytes)) THEN row ELSE NoRow ]
              constructed == World(NewJob(bytes, fio), rows, files)
              looked_up == StepWorld(StepWorld(constructed, carried), carried)
              reconciled == StepWorld(looked_up, carried)
          IN  result = [ w |-> reconciled,
                         objs |-> << reconciled.jb.pre_import_file_status,
                                     reconciled.jb.post_import_file_status >>,
                         pre |-> 1,
                         post |-> 2,
                         at_veto |-> << >>,
                         touched |-> << >>,
                         at_touch |-> << >> ]

\* DoWork takes its next step
StepDoWork ==
    /\ call.op = "Objects"
    /\ result.w.jb.pc \notin { "returned", "raised" }
    /\ result' = StepObjects(result)
    /\ UNCHANGED << db, client_files, job, runs, drift, imported, call >>

\* after DoWork returned, the caller assigns a note to the status it reaches through
\* the job's pre-import field or through the returned post-import status
Touch ==
    /\ call.op = "Objects"
    /\ result.w.jb.pc = "returned"
    /\ result.touched = << >>
    /\ \E via \in { "pre", "post" } :
          LET ref == IF via = "pre" THEN result.pre ELSE result.post
              other == IF via = "pre" THEN result.post ELSE result.pre
          IN  result' = [ result EXCEPT !.objs[ref].note = << "set by the caller" >>,
                                        !.touched = << via >>,
                                        !.at_touch = << result.objs[other] >> ]
    /\ UNCHANGED << db, client_files, job, runs, drift, imported, call >>

NextObjects ==
    \/ StepDoWork
    \/ Touch

SpecObjects == InitObjects /\ [][NextObjects]_vars

\* C25: in a run that is vetoed or short-circuited, the post-import status is never
\* the object the pre-import status is; building the vetoed status leaves the
\* pre-import status as it was, code and note included, and the vetoed status has
\* the code and the text; on short-circuit the post-import status is another object
\* with the same fields; and a note the caller later sets through one of the two
\* leaves the other as it was
C25_NoSharedState ==
    (call.op = "Objects" /\ result.w.jb.ok_to_go # << TRUE >>) =>
        LET jb == result.w.jb
            pre == result.objs[result.pre]
            post == result.objs[result.post]
        IN  /\ result.pre # result.post
            /\ (jb.ok_to_go = << FALSE >> /\ result.touched # << "pre" >>) =>
                  /\ pre = result.at_veto[1]
                  /\ pre.status # STATUS_VETOED
            /\ (jb.ok_to_go = << FALSE >> /\ result.touched = << >>) =>
                  /\ post.status = STATUS_VETOED
                  /\ post.note = jb.post_import_file_status.note
                  /\ post.hash = pre.hash /\ post.mime = pre.mime
            /\ (jb.ok_to_go = << >> /\ jb.pc \in { "publish", "returned" }
                  /\ result.touched = << >>) =>
                  post = pre
            /\ (result.touched = << "post" >>) =>
                  /\ pre = result.at_touch[1]
                  /\ post.note = << "set by the caller" >>
            /\ (result.touched = << "pre" >>) =>
                  /\ post = result.at_touch[1]
                  /\ pre.note = << "set by the caller" >>

\* a vetoed status was built from a pre-import status with a note of its own (the
\* file was missing from the store), and the caller then set the note of the
\* returned status: the pre-import status still has its code and its note
C25_Witness ==
    /\ call.op = "Objects"
    /\ result.w.jb.pc = "returned"
    /\ result.w.jb.ok_to_go = << FALSE >>
    /\ result.touched = << "post" >>
    /\ result.objs[result.post].status = STATUS_VETOED
    /\ result.objs[result.pre].status = STATUS_UNKNOWN
    /\ result.objs[result.pre].note # NoNote
    /\ result.objs[result.pre].note # << "set by the caller" >>

\* C26: IsDecompressionBomb is called only in a run whose mime, as resolved, is one
\* of DECOMPRESSION_BOMB_IMAGES and whose options do not allow decompression bombs;
\* a run ends with DecompressionBombException only after that call, on a file the
\* probe finds to be a bomb; under the default options and under options migrated
\* from a version-1 tuple the probe is not called and no run ends with that error
C26_ProbeOnlyWhenDisallowed ==
    (call.op = "DoWork") =>
        \A jb \in SideBySide :
            LET probed == Called(jb, "IsDecompressionBomb")
                bombed == jb.error = << "DecompressionBombException" >>
            IN  /\ probed => /\ jb.pre_import_file_status.mime \in DECOMPRESSION_BOMB_IMAGES
                             /\ ~ jb.file_import_options.allow_decompression_bombs
                /\ bombed => /\ probed
                             /\ jb.pc = "raised"
                             /\ IsDecompressionBomb(jb.temp_file)
                /\ (jb.file_import_options \in { DefaultOptions } \cup MigratedOptions) =>
                      ~ probed /\ ~ bombed

\* under options that do not allow bombs a PNG that is one was probed, and the run
\* ended with the error
C26_Witness ==
    /\ call.op = "DoWork"
    /\ result[1].jb.pc = "raised"
    /\ result[1].jb.given_file = "pngC"
    /\ ~ result[1].jb.file_import_options.allow_decompression_bombs
    /\ result[1].jb.pre_import_file_status.mime = IMAGE_PNG
    /\ Called(result[1].jb, "IsDecompressionBomb")
    /\ result[1].jb.error = << "DecompressionBombException" >>

====
